---- MODULE Spec2Model ----
(***************************************************************************)
(* waba-toolkit: webhook classification, the webhook helpers, webhook      *)
(* signature verification, the two-step media retrieval of WABAClient,     *)
(* the CLI's configuration lookup and the requests of WABAApiClient.       *)
(*                                                                         *)
(* Pure functions (classifyWebhook, classifyMessage, isMediaMessage,       *)
(* extractMediaId, getMessageId, getCallId, verifyWebhookSignature,        *)
(* WABAClient.verifyWebhook) are operators; the specifications             *)
(* SpecClassify and SpecVerify draw one input in Init and apply the        *)
(* function in one action.  Spec is the state machine of concurrent        *)
(* WABAClient.getMedia invocations, one action per resumption of the       *)
(* async function (the two fetches and response.arrayBuffer());            *)
(* SpecConcurrent adds verifyWebhook calls between the resumptions.        *)
(* SpecConfig is the CLI's resolution of identifiers from flag,            *)
(* environment and config file; SpecApi the requests of WABAApiClient.     *)
(***************************************************************************)
EXTENDS Integers, Sequences, FiniteSets, TLC

VARIABLES
  op,       \* pure-function harness: the function under call
  arg,      \* its argument
  ret,      \* its outcome: pending, a returned value or a thrown error
  client,   \* the WABAClient's readonly fields
  calls,    \* getMedia invocations, in call order
  issued,   \* number of temporary URLs the media server has issued so far
  host      \* the CLI's surroundings: environment variables, config file,
            \* backup files and clock

vars == <<op, arg, ret, client, calls, issued, host>>

(***************************************************************************)
(* JavaScript values (the JSON-shaped data the functions receive).         *)
(***************************************************************************)
Undef == [t |-> "undefined"]
Null == [t |-> "null"]
Str(s) == [t |-> "string", sv |-> s]
Num(n) == [t |-> "number", nv |-> n]
Bool(b) == [t |-> "boolean", bv |-> b]
Arr(items) == [t |-> "array", items |-> items]
Obj(fields) == [t |-> "object", f |-> fields]

\* v == null || v === undefined: where ?. short-circuits
IsNullish(v) == v.t \in {"undefined", "null"}

\* ToBoolean(v), as used by !value
Truthy(v) ==
  CASE v.t = "undefined" -> FALSE
    [] v.t = "null" -> FALSE
    [] v.t = "string" -> v.sv # ""
    [] v.t = "number" -> v.nv # 0
    [] v.t = "boolean" -> v.bv
    [] OTHER -> TRUE

\* typeof v is object (not null) : the right operand `in` accepts
IsObjectLike(v) == v.t \in {"object", "array"}

\* v[k] for a non-nullish v and a name k
GetProp(v, k) ==
  CASE v.t = "object" -> IF k \in DOMAIN v.f THEN v.f[k] ELSE Undef
    [] v.t = "array" -> IF k = "length" THEN Num(Len(v.items)) ELSE Undef
    [] OTHER -> Undef

\* v[0] for a non-nullish v
GetIndex0(v) ==
  CASE v.t = "array" -> IF Len(v.items) >= 1 THEN v.items[1] ELSE Undef
    [] v.t = "string" -> IF v.sv # "" THEN Str(SubSeq(v.sv, 1, 1)) ELSE Undef
    [] v.t = "object" -> IF "0" \in DOMAIN v.f THEN v.f["0"] ELSE Undef
    [] OTHER -> Undef

\* k in v, for an object or array v
HasProperty(k, v) ==
  CASE v.t = "object" -> k \in DOMAIN v.f
    [] v.t = "array" -> k = "length"
    [] OTHER -> FALSE

\* Outcomes of a call
Pending == [kind |-> "pending"]
Return(v) == [kind |-> "return", value |-> v]
Throw(e) == [kind |-> "throw", error |-> e]

\* An error object: its class and its message
Err(class, message) == [class |-> class, message |-> message]

\* A string as the sequence of its characters, where the characters matter
Chars(cs) == [t |-> "string", cs |-> cs]

DecimalDigits == <<"0", "1", "2", "3", "4", "5", "6", "7", "8", "9">>
IsDigit(c) == \E i \in 1..10 : DecimalDigits[i] = c
DigitValue(c) == (CHOOSE i \in 1..10 : DecimalDigits[i] = c) - 1
NaN == [t |-> "NaN"]

\* the decimal digits of a number n >= 0
RECURSIVE DigitsOf(_)
DigitsOf(n) ==
  IF n < 10 THEN <<DecimalDigits[n + 1]>>
  ELSE DigitsOf(n \div 10) \o <<DecimalDigits[(n % 10) + 1]>>

\* ToString(v) as a sequence of characters: a string is itself, an integer
\* its decimal digits after its sign, an array its elements joined by
\* commas (null and undefined elements give nothing)
RECURSIVE ToStringChars(_)
RECURSIVE JoinItems(_)
JoinItems(items) ==
  IF items = <<>> THEN <<>>
  ELSE (IF IsNullish(Head(items)) THEN <<>> ELSE ToStringChars(Head(items)))
       \o (IF Len(items) = 1 THEN <<>> ELSE <<",">> \o JoinItems(Tail(items)))

ToStringChars(v) ==
  CASE v.t = "string" ->
         IF "cs" \in DOMAIN v THEN v.cs
         ELSE [i \in 1..Len(v.sv) |-> SubSeq(v.sv, i, i)]
    [] v.t = "number" ->
         IF v.nv < 0 THEN <<"-">> \o DigitsOf(0 - v.nv) ELSE DigitsOf(v.nv)
    [] v.t = "array" -> JoinItems(v.items)
    [] v.t = "boolean" -> IF v.bv THEN <<"t", "r", "u", "e">> ELSE <<"f", "a", "l", "s", "e">>
    [] v.t = "null" -> <<"n", "u", "l", "l">>
    [] v.t = "undefined" -> <<"u", "n", "d", "e", "f", "i", "n", "e", "d">>
    [] v.t = "NaN" -> <<"N", "a", "N">>
    [] OTHER -> <<"[", "o", "b", "j", "e", "c", "t", " ", "O", "b", "j", "e", "c", "t", "]">>

\* the string without the StrWhiteSpaceChar characters at its start, which
\* parseInt skips: tab, vertical tab (U+000B), form feed, space, no-break
\* space (U+00A0), U+FEFF, the space separator U+1680, line feed and
\* carriage return.  The other space separators (U+2000 to U+200A, U+202F,
\* U+205F, U+3000) and U+2028, U+2029 are skipped by parseInt as well; a
\* string of this module cannot hold them.
RECURSIVE SkipWhiteSpace(_)
SkipWhiteSpace(cs) ==
  IF cs # <<>> /\ Head(cs) \in {"\t", "", "\f", " ", " ", "﻿", " ", "\n", "\r"}
    THEN SkipWhiteSpace(Tail(cs)) ELSE cs

RECURSIVE ParseDigits(_, _)
ParseDigits(cs, acc) ==
  IF cs = <<>> \/ ~IsDigit(Head(cs)) THEN acc
  ELSE ParseDigits(Tail(cs), acc * 10 + DigitValue(Head(cs)))

\* parseInt(v, 10): ToString(v), leading white space skipped, an optional
\* sign, then the decimal digits up to the first other character; NaN when
\* there is no digit there
parseInt(v) ==
  LET trimmed == SkipWhiteSpace(ToStringChars(v))
      signed == trimmed # <<>> /\ Head(trimmed) \in {"+", "-"}
      digits == IF signed THEN Tail(trimmed) ELSE trimmed
  IN IF digits = <<>> \/ ~IsDigit(Head(digits)) THEN NaN
     ELSE IF signed /\ Head(trimmed) = "-" THEN Num(0 - ParseDigits(digits, 0))
     ELSE Num(ParseDigits(digits, 0))

(***************************************************************************)
(* classifyWebhook                                                         *)
(***************************************************************************)
\* Mutant of NavigateValue: skips an entry or a change that leads nowhere and
\* takes the next one.
NavigateValue_scanning(payload) ==
  LET pe == GetProp(payload, "entry")
      usable(e) == ~IsNullish(e) /\ ~IsNullish(GetProp(e, "changes"))
                   /\ ~IsNullish(GetIndex0(GetProp(e, "changes")))
      entry == IF IsNullish(pe) THEN Undef
               ELSE IF pe.t = "array" /\ \E i \in 1..Len(pe.items) : usable(pe.items[i])
                 THEN pe.items[CHOOSE i \in 1..Len(pe.items) :
                        usable(pe.items[i]) /\ \A j \in 1..(i - 1) : ~usable(pe.items[j])]
               ELSE GetIndex0(pe)
      ec == IF IsNullish(entry) THEN Undef ELSE GetProp(entry, "changes")
      change == IF IsNullish(ec) THEN Undef ELSE GetIndex0(ec)
  IN IF IsNullish(change) THEN Undef ELSE GetProp(change, "value")

\* payload.entry?.[0]?.changes?.[0]?.value as the three const lines read it
NavigateValue(payload) ==
  LET pe == GetProp(payload, "entry")
      entry == IF IsNullish(pe) THEN Undef ELSE GetIndex0(pe)
      ec == IF IsNullish(entry) THEN Undef ELSE GetProp(entry, "changes")
      change == IF IsNullish(ec) THEN Undef ELSE GetIndex0(ec)
  IN IF IsNullish(change) THEN Undef ELSE GetProp(change, "value")

\* 'key' in value && Array.isArray(value.key)
HasArray(value, key) == HasProperty(key, value) /\ GetProp(value, key).t = "array"

classifyWebhook(payload) ==
  IF IsNullish(payload)
    THEN Throw(Err("TypeError", "not an object"))   \* payload.entry on null/undefined
    ELSE
      LET value == NavigateValue(payload) IN
      IF ~Truthy(value) THEN Return([type |-> "unknown", payload |-> payload])
      ELSE IF ~IsObjectLike(value)
        THEN Throw(Err("TypeError", "not an object"))   \* 'calls' in <primitive>
      ELSE IF HasArray(value, "calls")
        THEN Return([type |-> "call", payload |-> value])
      ELSE IF HasArray(value, "statuses")
        THEN Return([type |-> "status", payload |-> value])
      ELSE IF HasArray(value, "messages")
        THEN Return([type |-> "message", payload |-> value])
      ELSE IF HasArray(value, "errors")
        THEN Return([type |-> "message", payload |-> value])
      ELSE Return([type |-> "unknown", payload |-> payload])

(***************************************************************************)
(* classifyMessage                                                         *)
(***************************************************************************)
KnownTypes ==
  {"text", "image", "audio", "video", "document", "sticker", "location",
   "contacts", "interactive", "reaction", "button", "order", "system",
   "referral"}

\* Mutant of classifyMessage: the last case label is missing.
classifyMessage_noReferral(message) ==
  IF IsNullish(message)
    THEN Throw(Err("TypeError", "not an object"))
    ELSE
      LET ty == GetProp(message, "type") IN
      IF ty.t = "string" /\ ty.sv \in KnownTypes \ {"referral"}
        THEN Return([type |-> ty.sv, message |-> message])
        ELSE Return([type |-> "unsupported", message |-> message])

classifyMessage(message) ==
  IF IsNullish(message)
    THEN Throw(Err("TypeError", "not an object"))   \* message.type on null/undefined
    ELSE
      LET ty == GetProp(message, "type") IN
      \* switch compares with ===: only a string equal to a case label matches
      IF ty.t = "string" /\ ty.sv \in KnownTypes
        THEN Return([type |-> ty.sv, message |-> message])
        ELSE Return([type |-> "unsupported", message |-> message])

(***************************************************************************)
(* Helpers: isMediaMessage, extractMediaId, getMessageId, getCallId,       *)
(* getMessageTimestamp, getContactInfo                                     *)
(***************************************************************************)
MEDIA_TYPES == {"image", "audio", "video", "document", "sticker"}

\* MEDIA_TYPES.has(message.type)
isMediaMessage(message) ==
  IF IsNullish(message)
    THEN Throw(Err("TypeError", "not an object"))   \* message.type on null/undefined
    ELSE
      LET ty == GetProp(message, "type") IN
      Return(ty.t = "string" /\ ty.sv \in MEDIA_TYPES)

extractMediaId(message) ==
  IF isMediaMessage(message).kind = "throw" THEN isMediaMessage(message)
  ELSE IF ~isMediaMessage(message).value THEN Return(Undef)
  ELSE
    \* the switch: message.type is one of the five case labels here
    LET media == GetProp(message, GetProp(message, "type").sv) IN
    IF IsNullish(media)
      THEN Throw(Err("TypeError", "not an object"))   \* .id of undefined/null
      ELSE Return(GetProp(media, "id"))

\* list?.[0]?.id ?? null
FirstId(list) ==
  LET first == IF IsNullish(list) THEN Undef ELSE GetIndex0(list)
      id == IF IsNullish(first) THEN Undef ELSE GetProp(first, "id")
  IN IF IsNullish(id) THEN Null ELSE id

getMessageId(webhook) ==
  IF IsNullish(webhook)
    THEN Throw(Err("TypeError", "not an object"))   \* webhook.entry on null/undefined
    ELSE
      LET value == NavigateValue(webhook) IN
      IF ~Truthy(value) THEN Return(Null)
      ELSE IF ~IsObjectLike(value)
        THEN Throw(Err("TypeError", "not an object"))   \* 'messages' in <primitive>
      ELSE IF HasProperty("messages", value)
        THEN Return(FirstId(GetProp(value, "messages")))
      ELSE IF HasProperty("statuses", value)
        THEN Return(FirstId(GetProp(value, "statuses")))
      ELSE Return(Null)

getCallId(webhook) ==
  IF IsNullish(webhook)
    THEN Throw(Err("TypeError", "not an object"))   \* webhook.entry on null/undefined
    ELSE
      LET value == NavigateValue(webhook) IN
      IF ~Truthy(value) THEN Return(Null)
      ELSE IF ~IsObjectLike(value)
        THEN Throw(Err("TypeError", "not an object"))   \* 'calls' in <primitive>
      ELSE IF HasProperty("calls", value)
        THEN Return(FirstId(GetProp(value, "calls")))
      ELSE Return(Null)

\* A time value in milliseconds kept as whole seconds and the milliseconds
\* left over (seconds * 1000 + millis): epoch milliseconds of this century
\* exceed the checker's integers.
Millis(seconds, millis) == [seconds |-> seconds, millis |-> millis]

\* new Date(time): an invalid date when the time value is NaN
Date(time) == [t |-> "date", time |-> time]

\* Mutant of getMessageTimestamp: takes the epoch seconds for milliseconds.
getMessageTimestamp_seconds(message) ==
  IF IsNullish(message)
    THEN Throw(Err("TypeError", "not an object"))
    ELSE
      LET epochSeconds == parseInt(GetProp(message, "timestamp")) IN
      IF epochSeconds = NaN THEN Return(Date(NaN))
      ELSE Return(Date(Millis(epochSeconds.nv \div 1000, epochSeconds.nv % 1000)))

getMessageTimestamp(message) ==
  IF IsNullish(message)
    THEN Throw(Err("TypeError", "not an object"))   \* message.timestamp on null/undefined
    ELSE
      LET epochSeconds == parseInt(GetProp(message, "timestamp")) IN
      IF epochSeconds = NaN THEN Return(Date(NaN))    \* NaN * 1000 is NaN
      ELSE Return(Date(Millis(epochSeconds.nv, 0)))   \* epochSeconds * 1000

\* v.length of a non-nullish v
LengthOf(v) ==
  CASE v.t = "array" -> Num(Len(v.items))
    [] v.t = "string" -> Num(Len(v.sv))
    [] v.t = "object" -> GetProp(v, "length")
    [] OTHER -> Undef

getContactInfo(webhook) ==
  IF IsNullish(webhook)
    THEN Throw(Err("TypeError", "not an object"))   \* webhook.entry on null/undefined
    ELSE
      LET value == NavigateValue(webhook) IN
      IF ~Truthy(value) THEN Return(Null)
      ELSE IF ~IsObjectLike(value)
        THEN Throw(Err("TypeError", "not an object"))   \* 'contacts' in <primitive>
      ELSE IF ~HasProperty("contacts", value) THEN Return(Null)
      ELSE
        LET contacts == GetProp(value, "contacts")
            length == IF IsNullish(contacts) THEN Undef ELSE LengthOf(contacts)
        IN
        IF ~Truthy(length) THEN Return(Null)
        ELSE
          LET contact == GetIndex0(contacts)
              metadata == GetProp(value, "metadata")
          IN
          IF IsNullish(contact)
            THEN Throw(Err("TypeError", "not an object"))   \* contact.wa_id
          ELSE IF IsNullish(metadata)
            THEN Throw(Err("TypeError", "not an object"))   \* metadata.phone_number_id
          ELSE
            LET profile == GetProp(contact, "profile") IN
            Return(Obj([waId |-> GetProp(contact, "wa_id"),
                        profileName |-> IF IsNullish(profile) THEN Undef
                                        ELSE GetProp(profile, "name"),
                        phoneNumberId |-> GetProp(metadata, "phone_number_id")]))

(***************************************************************************)
(* Inputs of the classifiers.                                              *)
(***************************************************************************)
DiscriminantKeys == {"calls", "statuses", "messages", "errors"}

\* one element of a calls / statuses / messages / errors array
Item == Obj([id |-> Str("id1")])

\* the first element of the array under key k: its id names the array
ItemOf(k) ==
  Obj([id |-> Str(CASE k = "calls" -> "wacid.1"
                    [] k = "statuses" -> "wamid.status1"
                    [] k = "messages" -> "wamid.1"
                    [] OTHER -> "error1")])

\* what a discriminant field of a value may hold when it is there: an empty
\* array, an array of one element, a string, an object with the key "0"
FieldShapes == {"empty", "list", "text", "indexed"}

ShapeOf(s, k) ==
  CASE s = "empty" -> Arr(<<>>)
    [] s = "list" -> Arr(<<ItemOf(k)>>)
    [] s = "text" -> Str("x")
    [] s = "indexed" -> Obj("0" :> ItemOf(k))

\* value objects: every subset of the discriminant keys, every shape each
ObjectValues ==
  { Obj([k \in DOMAIN m |-> ShapeOf(m[k], k)]) :
      m \in UNION { [K -> FieldShapes] : K \in SUBSET DiscriminantKeys } }

\* values that are not objects
FalsyValues == {Undef, Null, Str(""), Num(0), Bool(FALSE)}
PrimitiveValues == {Str("x"), Num(5), Bool(TRUE)}

Values == ObjectValues \cup {Arr(<<>>)} \cup FalsyValues \cup PrimitiveValues

Change(v) == Obj([field |-> Str("messages"), value |-> v])
Entry(changes) == Obj([id |-> Str("waba1"), changes |-> changes])
Envelope(entries) ==
  Obj([object |-> Str("whatsapp_business_account"), entry |-> entries])

MessageValue == Obj([messages |-> Arr(<<Item>>)])
CallValue == Obj([calls |-> Arr(<<Item>>)])
GoodEntry == Entry(Arr(<<Change(MessageValue)>>))

\* the payloads handed to the classifiers: entry[0].changes[0].value is v; a
\* second change or a second entry follows the first; a link of
\* entry[0].changes[0].value is missing; not an object at all
Envelopes ==
  { Envelope(Arr(<<Entry(Arr(<<Change(v)>>))>>)) : v \in Values }
  \cup { Envelope(Arr(<<Entry(Arr(<<Change(v), Change(CallValue)>>)), GoodEntry>>)) :
           v \in {MessageValue, Obj([statuses |-> Arr(<<Item>>)]), Obj(<<>>)} }
  \cup { Obj(<<>>),
         Obj([object |-> Str("whatsapp_business_account")]),
         Envelope(Null),
         Envelope(Arr(<<>>)),
         Envelope(Str("xy")),
         Envelope(Arr(<<Null, GoodEntry>>)),
         Envelope(Arr(<<Obj([id |-> Str("waba1")]), GoodEntry>>)),
         Envelope(Arr(<<Entry(Null), GoodEntry>>)),
         Envelope(Arr(<<Entry(Arr(<<>>)), GoodEntry>>)),
         Envelope(Arr(<<Entry(Str("xy")), GoodEntry>>)),
         Envelope(Arr(<<Entry(Arr(<<Null, Change(MessageValue)>>)), GoodEntry>>)),
         Envelope(Arr(<<Entry(Arr(<<Obj([field |-> Str("messages")]),
                                    Change(CallValue)>>)), GoodEntry>>)) }
  \cup {Null, Undef, Str("xy"), Num(5)}

Message(fields) == Obj(fields)

Messages ==
  { Message([from |-> Str("15550001"), id |-> Str("wamid.1"),
             timestamp |-> Str("1704067200"), type |-> Str(ty)]) :
      ty \in KnownTypes \cup {"", "123", "unsupported", "ephemeral", "Text", "text "} }
  \cup { Message([from |-> Str("15550001"), id |-> Str(i), type |-> Str(ty),
                  text |-> Obj([body |-> Str("123")])]) :
           i \in {"wamid.1", "wamid.2"}, ty \in {"text", "image", "ephemeral"} }
  \cup { Message([from |-> Str("15550001"), id |-> Str("wamid.1")]),
         Message([from |-> Str("15550001"), type |-> Num(5)]),
         Message([from |-> Str("15550001"), type |-> Null]) }

\* a media object: with its id, without an id, with an empty id
MediaObjects ==
  {Obj([id |-> Str("media1"), mime_type |-> Str("image/jpeg")]),
   Obj([mime_type |-> Str("image/jpeg")]),
   Obj([id |-> Null, mime_type |-> Str("image/jpeg")])}

\* messages of a media type: the media object under the key the type names,
\* under another key, null, or missing
MediaMessages ==
  { Message([from |-> Str("15550001"), id |-> Str("wamid.1"), type |-> Str(ty)]
            @@ (key :> media)) :
      ty \in MEDIA_TYPES, key \in MEDIA_TYPES,
      media \in MediaObjects \cup {Null} }
  \cup { Message([from |-> Str("15550001"), id |-> Str("wamid.1"), type |-> Str("text"),
                  image |-> media]) : media \in MediaObjects }

\* timestamps as the characters of the string: decimal epoch seconds (the
\* first is 2024-01-01T00:00:00Z, the third and fourth lie on a 29 February),
\* a leading zero, digits followed by something else, no digit at all,
\* digits after a blank or a sign, after a vertical tab, after a no-break
\* space, U+FEFF and a line feed
Timestamps ==
  { <<"1", "7", "0", "4", "0", "6", "7", "2", "0", "0">>,
    <<"0">>,
    <<"9", "5", "1", "7", "8", "2", "4", "0", "0">>,
    <<"1", "7", "0", "9", "2", "5", "1", "1", "9", "9">>,
    <<"1", "7", "0", "4", "0", "6", "7", "1", "9", "9">>,
    <<"8", "6", "4", "0", "0">>,
    <<"0", "0", "6", "0">>,
    <<"1", "2", "a", "b">>,
    <<"a", "b">>,
    <<>>,
    <<" ", "1", "2">>,
    <<"-", "5">>,
    <<"+", "7">>,
    <<"", "6", "0">>,
    <<" ", "﻿", "\n", "6", "0">> }

\* timestamps that are no string: numbers, and an array of one string
RawTimestamps == {Num(1704067200), Num(0), Arr(<<Str("12")>>)}

\* messages whose timestamp is read, and one without a timestamp
TimedMessages ==
  { Message([from |-> Str("15550001"), id |-> Str("wamid.1"),
             timestamp |-> Chars(ts), type |-> Str(ty)]) :
      ts \in Timestamps, ty \in {"text", "image", "ephemeral"} }
  \cup { Message([from |-> Str("15550001"), id |-> Str("wamid.1"),
                  timestamp |-> raw, type |-> Str("text")]) : raw \in RawTimestamps }
  \cup { Message([from |-> Str("15550001"), id |-> Str("wamid.1"), type |-> Str("text")]),
         Null, Undef }

\* one element of a contacts array: with a profile name, with a profile
\* without a name, without a profile
Contact(waId) ==
  Obj([wa_id |-> Str(waId), profile |-> Obj([name |-> Str("Test User")])])

\* value objects with or without contacts, with or without metadata, beside
\* a messages or a statuses array or neither
ContactValues ==
  { Obj([k \in DOMAIN m |-> m[k]]) :
      m \in { c @@ d @@ x :
                c \in {<<>>} \cup { "contacts" :> cs : cs \in
                    { Arr(<<>>),
                      Arr(<<Contact("15559876543")>>),
                      Arr(<<Contact("15559876543"), Contact("15550000002")>>),
                      Arr(<<Obj([wa_id |-> Str("15559876543"), profile |-> Obj(<<>>)])>>),
                      Arr(<<Obj([wa_id |-> Str("15559876543")])>>),
                      Arr(<<Null>>),
                      Obj("0" :> Contact("15559876543")),
                      Str("x"),
                      Null } },
                d \in {<<>>} \cup { "metadata" :> md :
                                        md \in { Obj([display_phone_number |-> Str("15550001"),
                                                      phone_number_id |-> Str("123456789012345")]),
                                                 Obj([display_phone_number |-> Str("15550001")]),
                                                 Null } },
                x \in { <<>>, "messages" :> Arr(<<ItemOf("messages")>>),
                        "statuses" :> Arr(<<ItemOf("statuses")>>) } } }

ContactEnvelopes == { Envelope(Arr(<<Entry(Arr(<<Change(v)>>))>>)) : v \in ContactValues }

(***************************************************************************)
(* The client and its getMedia invocations (filled in below).              *)
(***************************************************************************)
NoClient == [accessToken |-> "", appSecret |-> Undef, apiVersion |-> "", baseUrl |-> ""]

\* No environment variable is set and there is no config file.
NoHost ==
  [env |-> [accessToken |-> Undef, phoneNumberId |-> Undef, apiVersion |-> Undef,
            wabaId |-> Undef, businessId |-> Undef],
   file |-> [t |-> "absent"], backups |-> {}, now |-> 0]

(***************************************************************************)
(* SpecClassify: one classifier applied to one input.                      *)
(***************************************************************************)
InitClassify ==
  /\ \/ op \in {"classifyWebhook", "getMessageId", "getCallId"} /\ arg \in Envelopes
     \/ op = "classifyMessage" /\ arg \in Messages
     \/ op \in {"isMediaMessage", "extractMediaId"} /\ arg \in Messages \cup MediaMessages
     \/ op = "getMessageTimestamp" /\ arg \in TimedMessages
     \/ op = "getContactInfo" /\ arg \in Envelopes \cup ContactEnvelopes
  /\ ret = Pending
  /\ client = NoClient
  /\ calls = <<>>
  /\ issued = 0
  /\ host = NoHost

CallClassifyWebhook ==
  /\ op = "classifyWebhook"
  /\ ret = Pending
  /\ ret' = classifyWebhook(arg)
  /\ UNCHANGED <<op, arg, client, calls, issued, host>>

CallClassifyMessage ==
  /\ op = "classifyMessage"
  /\ ret = Pending
  /\ ret' = classifyMessage(arg)
  /\ UNCHANGED <<op, arg, client, calls, issued, host>>

CallIsMediaMessage ==
  /\ op = "isMediaMessage"
  /\ ret = Pending
  /\ ret' = isMediaMessage(arg)
  /\ UNCHANGED <<op, arg, client, calls, issued, host>>

CallExtractMediaId ==
  /\ op = "extractMediaId"
  /\ ret = Pending
  /\ ret' = extractMediaId(arg)
  /\ UNCHANGED <<op, arg, client, calls, issued, host>>

CallGetMessageId ==
  /\ op = "getMessageId"
  /\ ret = Pending
  /\ ret' = getMessageId(arg)
  /\ UNCHANGED <<op, arg, client, calls, issued, host>>

CallGetCallId ==
  /\ op = "getCallId"
  /\ ret = Pending
  /\ ret' = getCallId(arg)
  /\ UNCHANGED <<op, arg, client, calls, issued, host>>

CallGetMessageTimestamp ==
  /\ op = "getMessageTimestamp"
  /\ ret = Pending
  /\ ret' = getMessageTimestamp(arg)
  /\ UNCHANGED <<op, arg, client, calls, issued, host>>

CallGetContactInfo ==
  /\ op = "getContactInfo"
  /\ ret = Pending
  /\ ret' = getContactInfo(arg)
  /\ UNCHANGED <<op, arg, client, calls, issued, host>>

NextClassify ==
  \/ CallClassifyWebhook
  \/ CallClassifyMessage
  \/ CallIsMediaMessage
  \/ CallExtractMediaId
  \/ CallGetMessageId
  \/ CallGetCallId
  \/ CallGetMessageTimestamp
  \/ CallGetContactInfo

SpecClassify == InitClassify /\ [][NextClassify]_vars

(***************************************************************************)
(* Properties of the classifiers (SpecClassify).                           *)
(***************************************************************************)
\* The envelope as the specification reads it: a field of a record, the first
\* element of a list, absent otherwise.
FieldOf(o, k) == IF o.t = "object" /\ k \in DOMAIN o.f THEN o.f[k] ELSE Undef
FirstOf(l) == IF l.t = "array" /\ Len(l.items) >= 1 THEN l.items[1] ELSE Undef
ValueOf(E) == FieldOf(FirstOf(FieldOf(FirstOf(FieldOf(E, "entry")), "changes")), "value")

HoldsArray(v, k) == FieldOf(v, k).t = "array"

PriorityKind(v) ==
  IF HoldsArray(v, "calls") THEN "call"
  ELSE IF HoldsArray(v, "statuses") THEN "status"
  ELSE IF HoldsArray(v, "messages") THEN "message"
  ELSE IF HoldsArray(v, "errors") THEN "message"
  ELSE "unknown"

WebhookClassified == op = "classifyWebhook" /\ ret # Pending

\* C1: for every envelope whose entry[0].changes[0].value is present,
\* classifyWebhook returns the kind the priority calls > statuses > messages >
\* errors-as-message > unknown gives; a value holding a calls or a statuses
\* array next to a messages array is never a message.
C1_DiscriminantPriority ==
  (WebhookClassified /\ ~IsNullish(arg) /\ ~IsNullish(ValueOf(arg))) =>
     /\ ret.kind = "return"
     /\ ret.value.type = PriorityKind(ValueOf(arg))
     /\ (HoldsArray(ValueOf(arg), "messages")
           /\ (HoldsArray(ValueOf(arg), "calls") \/ HoldsArray(ValueOf(arg), "statuses"))
         => ret.value.type # "message")

\* The part of C1 the code keeps: the priority order over the values that are
\* objects (a value that is a non-empty string, a non-zero number or true
\* makes the `in` operator throw).
PriorityOnObjectValues ==
  (WebhookClassified /\ ~IsNullish(arg) /\ IsObjectLike(ValueOf(arg))) =>
     /\ ret.kind = "return"
     /\ ret.value.type = PriorityKind(ValueOf(arg))

ClaimedTags ==
  {"text", "image", "audio", "video", "document", "sticker", "location",
   "contacts", "interactive", "reaction", "button", "order", "system",
   "referral"}

\* C5: classifyMessage(M).type is M.type when M.type is one of the 14 tags and
\* unsupported for every other value of M.type (other strings, a missing tag);
\* the message returned is M itself.
C5_MessageTotality ==
  (op = "classifyMessage" /\ ret # Pending) =>
     /\ ret.kind = "return"
     /\ ret.value.message = arg
     /\ LET ty == FieldOf(arg, "type") IN
        IF ty.t = "string" /\ ty.sv \in ClaimedTags
          THEN ret.value.type = ty.sv
          ELSE ret.value.type = "unsupported"

C5_Witness ==
  /\ op = "classifyMessage"
  /\ ret # Pending
  /\ FieldOf(arg, "type") = Str("referral")
  /\ ret.value.type = "referral"

\* C10: when a link of entry[0].changes[0].value is absent, classifyWebhook
\* returns unknown with the envelope itself as payload, whatever later entries
\* and later changes hold.
C10_BrokenChainUnknown ==
  (WebhookClassified /\ ~IsNullish(arg) /\ IsNullish(ValueOf(arg))) =>
     ret = Return([type |-> "unknown", payload |-> arg])

C10_Witness ==
  /\ WebhookClassified
  /\ arg.t = "object"
  /\ IsNullish(ValueOf(arg))
  /\ FieldOf(arg, "entry").t = "array"
  /\ Len(FieldOf(arg, "entry").items) = 2
  /\ ValueOf(Envelope(Arr(Tail(FieldOf(arg, "entry").items)))) = MessageValue
  /\ ret = Return([type |-> "unknown", payload |-> arg])

\* C11: classifyWebhook never throws: every input, a null or non-object
\* envelope, a non-array entry or changes, a present value that is a string, a
\* number or true included, yields one of the four classifications.
C11_ClassifyWebhookNeverThrows ==
  WebhookClassified =>
     /\ ret.kind = "return"
     /\ ret.value.type \in {"message", "status", "call", "unknown"}

\* C12: in every result of classifyWebhook the payload is the inner value
\* entry[0].changes[0].value whenever that value is present, for the kinds
\* call, status, message and unknown alike, and the envelope only when the
\* navigation chain is broken.
C12_PayloadIsInnerValue ==
  (WebhookClassified /\ ~IsNullish(arg) /\ ret.kind = "return") =>
     IF IsNullish(ValueOf(arg))
       THEN ret.value.payload = arg
       ELSE ret.value.payload = ValueOf(arg)

\* What the code returns as payload: the inner value with the kinds call,
\* status and message, the envelope with every unknown.
PayloadByKind ==
  (WebhookClassified /\ ret.kind = "return") =>
     IF ret.value.type = "unknown"
       THEN ret.value.payload = arg
       ELSE ret.value.payload = ValueOf(arg)

MediaTags == {"image", "audio", "video", "document", "sticker"}

\* the id a message of a media type carries: the id field of the object its
\* type names
MediaIdOf(M) ==
  LET ty == FieldOf(M, "type") IN
  IF ty.t = "string" /\ ty.sv \in MediaTags
    THEN FieldOf(FieldOf(M, ty.sv), "id")
    ELSE Undef

\* C13: for every message M, extractMediaId(M) returns, and it returns an id
\* exactly when isMediaMessage(M) is true; the id it returns is the id field of
\* the object M.type names.
C13_MediaGuardAgreesWithExtraction ==
  (op = "extractMediaId" /\ ret # Pending) =>
     /\ ret.kind = "return"
     /\ isMediaMessage(arg).kind = "return"
     /\ isMediaMessage(arg).value <=> ret.value.t = "string"
     /\ ret.value.t = "string" => ret.value = MediaIdOf(arg)

\* the kind classifyWebhook gives the envelope E, none when it throws
KindOf(E) ==
  IF classifyWebhook(E).kind = "return" THEN classifyWebhook(E).value.type ELSE "none"

\* C14: getMessageId returns an id only for an envelope that classifyWebhook
\* classifies as message or status; for every envelope classified as call (one
\* whose value also holds messages or statuses included) and for every
\* envelope classified as unknown it returns absent.
C14_MessageIdOnlyForMessageOrStatus ==
  (op = "getMessageId" /\ ret # Pending) =>
     /\ (ret.kind = "return" /\ ~IsNullish(ret.value)) => KindOf(arg) \in {"message", "status"}
     /\ KindOf(arg) \in {"call", "unknown"} => ret = Return(Null)

\* C15: getCallId returns an id only for an envelope classified as call; for
\* an envelope classified as call with a non-empty calls array it returns
\* calls[0].id; for message, status and unknown envelopes it returns absent.
C15_CallIdOnlyForCall ==
  (op = "getCallId" /\ ret # Pending) =>
     /\ (ret.kind = "return" /\ ~IsNullish(ret.value)) => KindOf(arg) = "call"
     /\ (KindOf(arg) = "call" /\ ~IsNullish(FirstOf(FieldOf(ValueOf(arg), "calls")))) =>
          /\ ret.kind = "return"
          /\ ret.value = FieldOf(FirstOf(FieldOf(ValueOf(arg), "calls")), "id")
     /\ KindOf(arg) \in {"message", "status", "unknown"} => ret = Return(Null)

\* The part of C15 the code keeps: for every envelope whose calls field is
\* absent or an array, getCallId is as C15 says.
CallIdOnArrayCalls ==
  (op = "getCallId" /\ ret # Pending /\ KindOf(arg) # "none"
     /\ FieldOf(ValueOf(arg), "calls").t \in {"undefined", "array"}) =>
     /\ ~IsNullish(ret.value) => KindOf(arg) = "call"
     /\ KindOf(arg) = "call" => ret.value = FirstId(FieldOf(ValueOf(arg), "calls"))
     /\ KindOf(arg) # "call" => ret = Return(Null)

\* the integer a string of decimal digits denotes
RECURSIVE DecimalValue(_)
DecimalValue(cs) ==
  IF cs = <<>> THEN 0
  ELSE 10 * DecimalValue(SubSeq(cs, 1, Len(cs) - 1)) + DigitValue(cs[Len(cs)])

\* a non-empty string of decimal digits
IsDecimal(cs) == cs # <<>> /\ \A i \in 1..Len(cs) : IsDigit(cs[i])

\* The UTC calendar reading of an instant given as epoch seconds and
\* milliseconds (proleptic Gregorian calendar, days counted from 0000-03-01).
UtcOf(time) ==
  LET days == time.seconds \div 86400
      sod == time.seconds % 86400
      z == days + 719468
      era == z \div 146097
      doe == z - era * 146097
      yoe == (doe - doe \div 1460 + doe \div 36524 - doe \div 146096) \div 365
      doy == doe - (365 * yoe + yoe \div 4 - yoe \div 100)
      mp == (5 * doy + 2) \div 153
      month == IF mp < 10 THEN mp + 3 ELSE mp - 9
  IN [year |-> yoe + era * 400 + (IF month <= 2 THEN 1 ELSE 0),
      month |-> month,
      day |-> doy - (153 * mp + 2) \div 5 + 1,
      hour |-> sod \div 3600,
      minute |-> (sod % 3600) \div 60,
      second |-> sod % 60,
      millisecond |-> time.millis]

TimestampOf(message) == FieldOf(message, "timestamp")

\* C22: for a message whose timestamp is the decimal string of n epoch
\* seconds, getMessageTimestamp returns the instant n * 1000 milliseconds
\* after the epoch (n whole seconds, no millisecond left over); for
\* "1704067200" that instant is 2024-01-01T00:00:00.000Z.
C22_TimestampIsEpochSecondsTimesThousand ==
  (op = "getMessageTimestamp" /\ ret # Pending /\ ~IsNullish(arg)
     /\ TimestampOf(arg).t = "string" /\ IsDecimal(TimestampOf(arg).cs)) =>
     /\ ret = Return(Date(Millis(DecimalValue(TimestampOf(arg).cs), 0)))
     /\ DecimalValue(TimestampOf(arg).cs) = 1704067200 =>
          UtcOf(ret.value.time) =
            [year |-> 2024, month |-> 1, day |-> 1, hour |-> 0, minute |-> 0,
             second |-> 0, millisecond |-> 0]

C22_Witness ==
  /\ op = "getMessageTimestamp"
  /\ TimestampOf(arg) = Chars(<<"1", "7", "0", "4", "0", "6", "7", "2", "0", "0">>)
  /\ ret = Return(Date(Millis(1704067200, 0)))

\* the calendar reading agrees with known dates: a leap day, the last
\* second of a year, the second day of the epoch
CalendarReadsKnownDates ==
  /\ UtcOf(Millis(951782400, 0)).year = 2000 /\ UtcOf(Millis(951782400, 0)).month = 2
  /\ UtcOf(Millis(951782400, 0)).day = 29
  /\ UtcOf(Millis(1709251199, 0)) =
       [year |-> 2024, month |-> 2, day |-> 29, hour |-> 23, minute |-> 59,
        second |-> 59, millisecond |-> 0]
  /\ UtcOf(Millis(1704067199, 0)) =
       [year |-> 2023, month |-> 12, day |-> 31, hour |-> 23, minute |-> 59,
        second |-> 59, millisecond |-> 0]
  /\ UtcOf(Millis(86400, 0)) =
       [year |-> 1970, month |-> 1, day |-> 2, hour |-> 0, minute |-> 0,
        second |-> 0, millisecond |-> 0]

HelperExtractors ==
  {"isMediaMessage", "extractMediaId", "getContactInfo", "getMessageId", "getCallId"}

\* C23: applied to an object of any shape, the helper extractors
\* isMediaMessage, extractMediaId, getContactInfo, getMessageId and getCallId
\* return (the not-present value when the expected sub-structure is absent)
\* and never raise.
C23_ExtractorsNeverThrow ==
  (op \in HelperExtractors /\ ret # Pending /\ arg.t = "object") => ret.kind = "return"

\* The extractors that do not raise on any object: isMediaMessage, and the
\* others on inputs that carry what their declared types require (the media
\* object of a media message; an object or nothing as the value; metadata
\* and contact entries beside a non-empty contacts list).
TypedForExtractor ==
  CASE op = "extractMediaId" ->
         isMediaMessage(arg).value =>
           ~IsNullish(FieldOf(arg, FieldOf(arg, "type").sv))
    [] op = "getContactInfo" ->
         /\ ~Truthy(ValueOf(arg)) \/ IsObjectLike(ValueOf(arg))
         /\ LET cs == FieldOf(ValueOf(arg), "contacts") IN
            (~IsNullish(cs) /\ Truthy(LengthOf(cs))) =>
               /\ ~IsNullish(GetIndex0(cs))
               /\ ~IsNullish(FieldOf(ValueOf(arg), "metadata"))
    [] op \in {"getMessageId", "getCallId"} ->
         ~Truthy(ValueOf(arg)) \/ IsObjectLike(ValueOf(arg))
    [] OTHER -> TRUE

ExtractorsReturnOnTypedInput ==
  (op \in HelperExtractors /\ ret # Pending /\ arg.t = "object"
     /\ KindOf(arg) # "none" /\ TypedForExtractor) => ret.kind = "return"

\* the value holds a contacts array with at least one element
HasContacts(v) ==
  FieldOf(v, "contacts").t = "array" /\ Len(FieldOf(v, "contacts").items) >= 1

\* what the contact information of a value with contacts is said to be
ContactInfoOf(v) ==
  LET contact == FirstOf(FieldOf(v, "contacts")) IN
  Obj([waId |-> FieldOf(contact, "wa_id"),
       profileName |-> FieldOf(FieldOf(contact, "profile"), "name"),
       phoneNumberId |-> FieldOf(FieldOf(v, "metadata"), "phone_number_id")])

\* C24: getContactInfo of an envelope object returns null exactly when
\* entry[0].changes[0].value is absent or holds no non-empty contacts array;
\* otherwise it returns waId = contacts[0].wa_id, profileName =
\* contacts[0].profile.name (possibly undefined) and phoneNumberId =
\* value.metadata.phone_number_id.
C24_ContactInfoOrNull ==
  (op = "getContactInfo" /\ ret # Pending /\ arg.t = "object") =>
     IF HasContacts(ValueOf(arg))
       THEN ret = Return(ContactInfoOf(ValueOf(arg)))
       ELSE ret = Return(Null)

\* The same on envelopes whose value carries what its declared type
\* requires: metadata always, objects as contacts entries, an array as
\* the contacts field.
ContactInfoOnTypedInput ==
  (op = "getContactInfo" /\ ret # Pending /\ arg.t = "object"
     /\ LET v == ValueOf(arg) IN
        /\ ~Truthy(v) \/ v.t = "object"
        /\ v.t = "object" =>
             /\ FieldOf(v, "metadata").t = "object"
             /\ FieldOf(v, "contacts").t \in {"undefined", "array"}
             /\ HasContacts(v) => FirstOf(FieldOf(v, "contacts")).t = "object") =>
     IF HasContacts(ValueOf(arg))
       THEN ret = Return(ContactInfoOf(ValueOf(arg)))
       ELSE ret = Return(Null)

ContactInfoReturned ==
  /\ op = "getContactInfo"
  /\ ret.kind = "return"
  /\ ret.value = Obj([waId |-> Str("15559876543"), profileName |-> Undef,
                      phoneNumberId |-> Str("123456789012345")])

\* C27: getMessageId follows the classifier's priority: for an envelope
\* classified status (a value with both a statuses and a messages array
\* included) it returns statuses[0].id, and for an envelope classified
\* message with a non-empty messages array it returns messages[0].id.
C27_MessageIdFollowsClassifier ==
  (op = "getMessageId" /\ ret # Pending /\ arg.t = "object") =>
     /\ KindOf(arg) = "status" =>
          ret = Return(FirstId(FieldOf(ValueOf(arg), "statuses")))
     /\ (KindOf(arg) = "message" /\ HoldsArray(ValueOf(arg), "messages")
           /\ Len(FieldOf(ValueOf(arg), "messages").items) >= 1) =>
          ret = Return(FieldOf(FirstOf(FieldOf(ValueOf(arg), "messages")), "id"))

\* The message half holds as stated; the status half holds when the value
\* has no messages field.
MessageIdOfMessageOrBareStatus ==
  (op = "getMessageId" /\ ret # Pending /\ arg.t = "object") =>
     /\ (KindOf(arg) = "status" /\ FieldOf(ValueOf(arg), "messages") = Undef) =>
          ret = Return(FirstId(FieldOf(ValueOf(arg), "statuses")))
     /\ (KindOf(arg) = "message" /\ HoldsArray(ValueOf(arg), "messages")
           /\ Len(FieldOf(ValueOf(arg), "messages").items) >= 1) =>
          ret = Return(FieldOf(FirstOf(FieldOf(ValueOf(arg), "messages")), "id"))

StatusAndMessagesReached ==
  /\ op = "getMessageId"
  /\ KindOf(arg) = "status"
  /\ HoldsArray(ValueOf(arg), "messages")
  /\ ret = Return(Str("wamid.1"))

(***************************************************************************)
(* Text and bytes of the signature verification.  A string is a sequence   *)
(* of characters, a Buffer a sequence of byte values.                      *)
(***************************************************************************)
Buffer(bytes) == [t |-> "buffer", bytes |-> bytes]

\* !s for a string or undefined
EmptyOrUndefined(s) == s.t = "undefined" \/ (s.t = "string" /\ s.cs = <<>>)

HexDigits ==
  <<"0", "1", "2", "3", "4", "5", "6", "7", "8", "9", "a", "b", "c", "d", "e", "f">>

\* UTF-8 encoding of one character of the model's alphabet
CharBytes(c) ==
  CASE c = "é" -> <<195, 169>>
    [] c = "=" -> <<61>>
    [] c = "A" -> <<65>>
    [] c = "B" -> <<66>>
    [] c = "h" -> <<104>>
    [] c = "k" -> <<107>>
    [] c = "q" -> <<113>>
    [] c = "s" -> <<115>>
    [] \E i \in 1..10 : HexDigits[i] = c ->
         <<47 + (CHOOSE i \in 1..10 : HexDigits[i] = c)>>
    [] \E i \in 11..16 : HexDigits[i] = c ->
         <<86 + (CHOOSE i \in 11..16 : HexDigits[i] = c)>>

\* Buffer.from(s, 'utf-8')
RECURSIVE Utf8(_)
Utf8(cs) == IF cs = <<>> THEN <<>> ELSE CharBytes(Head(cs)) \o Utf8(Tail(cs))

\* s.startsWith(p)
StartsWith(cs, p) == Len(cs) >= Len(p) /\ SubSeq(cs, 1, Len(p)) = p

\* s.slice(n)
Slice(cs, n) == SubSeq(cs, n + 1, Len(cs))

Sha256Prefix == <<"s", "h", "a", "2", "5", "6", "=">>
PrefixLen == 7

\* Length of the hex digest (64 for SHA-256; the model's digest is shorter).
DigestLen == 2

RECURSIVE Pow16(_)
Pow16(n) == IF n = 0 THEN 1 ELSE 16 * Pow16(n - 1)

RECURSIVE Absorb(_, _)
Absorb(h, bytes) ==
  IF bytes = <<>> THEN h
  ELSE Absorb((h * 37 + Head(bytes) + 1) % Pow16(DigestLen), Tail(bytes))

\* createHmac('sha256', key).update(data).digest('hex'): a keyed digest of
\* DigestLen lowercase hex digits, without collisions on the model's inputs.
HmacHex(key, data) ==
  LET n == Absorb(Absorb(Absorb(11, key), <<255>>), data)
  IN [i \in 1..DigestLen |-> HexDigits[((n \div Pow16(DigestLen - i)) % 16) + 1]]

\* crypto.timingSafeEqual(a, b): it throws when the byte lengths differ
timingSafeEqual(a, b) ==
  IF Len(a) # Len(b)
    THEN Throw(Err("RangeError", "Input buffers must have the same byte length"))
    ELSE Return(\A i \in 1..Len(a) : a[i] = b[i])

(***************************************************************************)
(* verifyWebhookSignature and WABAClient.verifyWebhook                     *)
(***************************************************************************)
DEFAULT_API_VERSION == "v22.0"
DEFAULT_BASE_URL == "https://graph.facebook.com"

\* new WABAClient(options)
WABAClient(options) ==
  [accessToken |-> options.accessToken,
   appSecret |-> options.appSecret,
   apiVersion |-> IF IsNullish(options.apiVersion)
                    THEN DEFAULT_API_VERSION ELSE options.apiVersion.sv,
   baseUrl |-> IF IsNullish(options.baseUrl)
                 THEN DEFAULT_BASE_URL ELSE options.baseUrl.sv]

\* Mutant of verifyWebhookSignature: the header is compared as it came.
verifyWebhookSignature_noStrip(options) ==
  IF EmptyOrUndefined(options.appSecret)
    THEN Throw(Err("WABASignatureError", "appSecret is required for webhook verification"))
  ELSE IF EmptyOrUndefined(options.signature) THEN Return(FALSE)
  ELSE
    LET bodyBuffer == IF options.rawBody.t = "string"
                        THEN Utf8(options.rawBody.cs) ELSE options.rawBody.bytes
        expectedBuffer == Utf8(HmacHex(Utf8(options.appSecret.cs), bodyBuffer))
        signatureBuffer == Utf8(options.signature.cs)
    IN IF Len(signatureBuffer) # Len(expectedBuffer) THEN Return(FALSE)
       ELSE timingSafeEqual(signatureBuffer, expectedBuffer)

\* Mutant of compareSignature: a header that does not match is an error.
compareSignature_raisesOnMismatch(options) ==
  IF EmptyOrUndefined(options.signature) THEN Return(FALSE)
  ELSE
    LET signatureHash == IF StartsWith(options.signature.cs, Sha256Prefix)
                           THEN Slice(options.signature.cs, PrefixLen)
                           ELSE options.signature.cs
        bodyBuffer == IF options.rawBody.t = "string"
                        THEN Utf8(options.rawBody.cs) ELSE options.rawBody.bytes
        expectedHash == HmacHex(Utf8(options.appSecret.cs), bodyBuffer)
    IN IF signatureHash = expectedHash THEN Return(TRUE)
       ELSE Throw(Err("WABASignatureError", "Invalid webhook signature"))

\* Mutant of compareSignature: the buffers go to timingSafeEqual unchecked.
compareSignature_noLengthCheck(options) ==
  IF EmptyOrUndefined(options.signature) THEN Return(FALSE)
  ELSE
    LET signatureHash == IF StartsWith(options.signature.cs, Sha256Prefix)
                           THEN Slice(options.signature.cs, PrefixLen)
                           ELSE options.signature.cs
        bodyBuffer == IF options.rawBody.t = "string"
                        THEN Utf8(options.rawBody.cs) ELSE options.rawBody.bytes
        expectedHash == HmacHex(Utf8(options.appSecret.cs), bodyBuffer)
    IN timingSafeEqual(Utf8(signatureHash), Utf8(expectedHash))

\* verifyWebhookSignature once the secret is known to be there
compareSignature(options) ==
  IF EmptyOrUndefined(options.signature) THEN Return(FALSE)
  ELSE
    LET signatureHash == IF StartsWith(options.signature.cs, Sha256Prefix)
                           THEN Slice(options.signature.cs, PrefixLen)
                           ELSE options.signature.cs
        bodyBuffer == IF options.rawBody.t = "string"
                        THEN Utf8(options.rawBody.cs) ELSE options.rawBody.bytes
        expectedHash == HmacHex(Utf8(options.appSecret.cs), bodyBuffer)
        signatureBuffer == Utf8(signatureHash)
        expectedBuffer == Utf8(expectedHash)
    IN IF Len(signatureBuffer) # Len(expectedBuffer) THEN Return(FALSE)
       ELSE timingSafeEqual(signatureBuffer, expectedBuffer)

\* Mutant of ScanBytes: a comparison that stops at the first pair that
\* differs, as === on the two strings would.
RECURSIVE ScanBytes_untilDifference(_, _, _)
ScanBytes_untilDifference(a, b, i) ==
  IF i > Len(a) THEN 0
  ELSE IF a[i] # b[i] THEN 1
  ELSE 1 + ScanBytes_untilDifference(a, b, i + 1)

\* The byte pairs crypto.timingSafeEqual(a, b) reads from position i on:
\* every pair, whether the bytes are equal or not.
RECURSIVE ScanBytes(_, _, _)
ScanBytes(a, b, i) ==
  IF i > Len(a) THEN 0
  ELSE 1 + ScanBytes(a, b, i + 1)

\* The byte pairs verifyWebhookSignature compares: none before the secret
\* and the header are there and the two byte lengths agree, then those of
\* the one timingSafeEqual call.
comparisonWork(options) ==
  IF EmptyOrUndefined(options.appSecret) \/ EmptyOrUndefined(options.signature) THEN 0
  ELSE
    LET signatureHash == IF StartsWith(options.signature.cs, Sha256Prefix)
                           THEN Slice(options.signature.cs, PrefixLen)
                           ELSE options.signature.cs
        bodyBuffer == IF options.rawBody.t = "string"
                        THEN Utf8(options.rawBody.cs) ELSE options.rawBody.bytes
        expectedHash == HmacHex(Utf8(options.appSecret.cs), bodyBuffer)
        signatureBuffer == Utf8(signatureHash)
        expectedBuffer == Utf8(expectedHash)
    IN IF Len(signatureBuffer) # Len(expectedBuffer) THEN 0
       ELSE ScanBytes(signatureBuffer, expectedBuffer, 1)

\* Mutant of verifyWebhookSignature: the header is looked at before the secret.
verifyWebhookSignature_headerFirst(options) ==
  IF EmptyOrUndefined(options.signature) THEN Return(FALSE)
  ELSE IF EmptyOrUndefined(options.appSecret)
    THEN Throw(Err("WABASignatureError", "appSecret is required for webhook verification"))
  ELSE compareSignature(options)

verifyWebhookSignature(options) ==
  IF EmptyOrUndefined(options.appSecret)
    THEN Throw(Err("WABASignatureError", "appSecret is required for webhook verification"))
  ELSE compareSignature(options)

\* Mutant of verifyWebhook: the client strips the prefix before it delegates.
verifyWebhook_stripsPrefix(this, signature, rawBody) ==
  IF EmptyOrUndefined(this.appSecret)
    THEN Throw(Err("WABASignatureError",
                   "appSecret is required for webhook verification. Pass it in WABAClientOptions."))
    ELSE verifyWebhookSignature(
           [signature |-> IF signature.t = "string" /\ StartsWith(signature.cs, Sha256Prefix)
                            THEN Chars(Slice(signature.cs, PrefixLen)) ELSE signature,
            rawBody |-> rawBody, appSecret |-> this.appSecret])

\* WABAClient.verifyWebhook(signature, rawBody) on the client `this`
verifyWebhook(this, signature, rawBody) ==
  IF EmptyOrUndefined(this.appSecret)
    THEN Throw(Err("WABASignatureError",
                   "appSecret is required for webhook verification. Pass it in WABAClientOptions."))
    ELSE verifyWebhookSignature(
           [signature |-> signature, rawBody |-> rawBody, appSecret |-> this.appSecret])

(***************************************************************************)
(* Inputs of the signature verification.                                   *)
(***************************************************************************)
Secrets == {Undef, Chars(<<>>), Chars(<<"k">>), Chars(<<"q">>)}

Bodies ==
  {Buffer(<<>>), Buffer(<<97>>), Buffer(<<98>>), Buffer(<<97, 98>>),
   Chars(<<"a">>), Chars(<<"é">>)}

BodyBytes(b) == IF b.t = "string" THEN Utf8(b.cs) ELSE b.bytes

\* every digest over the model's keys and bodies
Digests ==
  { HmacHex(Utf8(k.cs), BodyBytes(b)) : k \in Secrets \ {Undef}, b \in Bodies }

\* the hash part of a header: a digest, or a digest damaged in one way
HashParts ==
  Digests
  \cup { [j \in 1..Len(d) |-> IF j = i THEN c ELSE d[j]] :
           d \in Digests, i \in 1..DigestLen, c \in {"0", "f", "A", "é"} }
  \cup { SubSeq(d, 1, DigestLen - 1) : d \in Digests }
  \cup { d \o <<"0">> : d \in Digests }
  \cup { <<>> }

(***************************************************************************)
(* SpecVerify: one verification of one header, body and secret, through    *)
(* the function or through a client built with that secret.                *)
(***************************************************************************)
InitVerify ==
  /\ op \in {"verifyWebhookSignature", "verifyWebhook"}
  /\ arg \in
       [signature :
         {Undef}
         \cup { Chars(h) : h \in HashParts }
         \cup { Chars(Sha256Prefix \o h) : h \in HashParts }
         \cup { Chars(Sha256Prefix \o Sha256Prefix \o d) : d \in Digests }
         \cup { Chars(SubSeq(Sha256Prefix, 1, PrefixLen - 1) \o d) : d \in Digests }
         \cup { Chars(<<"é">> \o SubSeq(d, 3, DigestLen)) : d \in Digests },
        rawBody : Bodies, appSecret : Secrets]
  /\ ret = Pending
  /\ client = IF op = "verifyWebhook"
                THEN WABAClient([accessToken |-> "token", appSecret |-> arg.appSecret,
                                 apiVersion |-> Undef, baseUrl |-> Undef])
                ELSE NoClient
  /\ calls = <<>>
  /\ issued = 0
  /\ host = NoHost

CallVerifyWebhookSignature ==
  /\ op = "verifyWebhookSignature"
  /\ ret = Pending
  /\ ret' = verifyWebhookSignature(arg)
  /\ UNCHANGED <<op, arg, client, calls, issued, host>>

CallVerifyWebhook ==
  /\ op = "verifyWebhook"
  /\ ret = Pending
  /\ ret' = verifyWebhook(client, arg.signature, arg.rawBody)
  /\ UNCHANGED <<op, arg, client, calls, issued, host>>

NextVerify == CallVerifyWebhookSignature \/ CallVerifyWebhook

SpecVerify == InitVerify /\ [][NextVerify]_vars

(***************************************************************************)
(* Properties of the signature verification (SpecVerify).                  *)
(***************************************************************************)
Verified == op \in {"verifyWebhookSignature", "verifyWebhook"} /\ ret # Pending

SecretMissing == arg.appSecret = Undef \/ arg.appSecret = Chars(<<>>)

\* the header without one leading sha256=, the whole header when it has none
StripOnce(cs) ==
  IF Len(cs) >= PrefixLen /\ \A i \in 1..PrefixLen : cs[i] = Sha256Prefix[i]
    THEN [i \in 1..(Len(cs) - PrefixLen) |-> cs[i + PrefixLen]]
    ELSE cs

ExpectedHex == HmacHex(Utf8(arg.appSecret.cs), BodyBytes(arg.rawBody))

\* C2: with a non-empty secret the verification returns true if and only if
\* the header is present and, without one leading sha256=, equals the hex
\* HMAC of the body under the secret; every other header, body or secret
\* gives false.
C2_SignatureCorrectness ==
  (Verified /\ ~SecretMissing) =>
     /\ ret.kind = "return"
     /\ ret.value \in BOOLEAN
     /\ ret.value = TRUE <=>
          (arg.signature # Undef /\ StripOnce(arg.signature.cs) = ExpectedHex)

C2_Witness ==
  /\ Verified
  /\ ~SecretMissing
  /\ arg.signature # Undef
  /\ arg.signature.cs = Sha256Prefix \o ExpectedHex
  /\ arg.rawBody = Buffer(<<97, 98>>)
  /\ ret = Return(TRUE)

\* C3: with the secret undefined or empty the verification raises an error
\* for every header and body, through the function and through a client
\* built without appSecret.
C3_MissingSecretRaises ==
  (Verified /\ SecretMissing) => ret.kind = "throw"

C3_Witness ==
  /\ Verified
  /\ op = "verifyWebhook"
  /\ arg.appSecret = Chars(<<>>)
  /\ arg.signature = Chars(Sha256Prefix \o HmacHex(<<>>, BodyBytes(arg.rawBody)))
  /\ ret.kind = "throw"

\* the class documented as the error for invalid webhook signatures
InvalidSignatureClass == "WABASignatureError"
\* the class documented as the error for configuration issues
ConfigurationClass == "WABAConfigError"

\* C4: the error raised by signature verification for a missing or empty
\* secret is of the configuration-error class, a class other than the one
\* that denotes an invalid webhook signature.
C4_RaisesConfigurationError ==
  (Verified /\ SecretMissing /\ ret.kind = "throw") =>
     /\ ret.error.class = ConfigurationClass
     /\ ret.error.class # InvalidSignatureClass

\* what the code does instead: the error raised for a missing secret is of
\* the WABASignatureError class, the class that denotes an invalid webhook
\* signature, and not of the configuration-error class.
MissingSecretRaisesSignatureError ==
  (Verified /\ SecretMissing) =>
     /\ ret.kind = "throw"
     /\ ret.error.class = InvalidSignatureClass
     /\ ret.error.class # ConfigurationClass

MissingSecretReached ==
  /\ Verified
  /\ op = "verifyWebhookSignature"
  /\ arg.appSecret = Undef
  /\ arg.signature # Undef
  /\ ret.kind = "throw"
  /\ ret.error.class = "WABASignatureError"

\* The digest separates the model's keys and bodies (what HMAC-SHA256 gives
\* in practice): equal digests come from equal key and body bytes.
DigestSeparates ==
  \A k1, k2 \in Secrets \ {Undef}, b1, b2 \in Bodies :
     HmacHex(Utf8(k1.cs), BodyBytes(b1)) = HmacHex(Utf8(k2.cs), BodyBytes(b2))
       => k1 = k2 /\ BodyBytes(b1) = BodyBytes(b2)

HeaderMissing == arg.signature = Undef \/ arg.signature = Chars(<<>>)

\* the header is the signature of the body b under the secret k
SignatureOf(k, b) == StripOnce(arg.signature.cs) = HmacHex(Utf8(k.cs), BodyBytes(b))

\* C16: with a non-empty secret the verification never raises: it returns a
\* boolean for every header and body, false for an absent or empty header,
\* and false, not an exception, for a header that is the signature of the
\* same body under another secret or of another body under the same secret.
C16_NeverRaisesWithSecret ==
  (Verified /\ ~SecretMissing) =>
     /\ ret.kind = "return"
     /\ ret.value \in BOOLEAN
     /\ HeaderMissing => ret.value = FALSE
     /\ \A k \in Secrets \ {Undef, Chars(<<>>)}, b \in Bodies :
          (/\ ~HeaderMissing
           /\ SignatureOf(k, b)
           /\ (k # arg.appSecret \/ BodyBytes(b) # BodyBytes(arg.rawBody)))
          => ret = Return(FALSE)

\* a header signed with another secret
C16_Witness ==
  /\ Verified
  /\ op = "verifyWebhookSignature"
  /\ arg.appSecret = Chars(<<"k">>)
  /\ arg.signature = Chars(Sha256Prefix \o HmacHex(Utf8(<<"q">>), BodyBytes(arg.rawBody)))
  /\ ret = Return(FALSE)

\* byte length of the header without its prefix, and of the expected digest
StrippedBytes == Len(Utf8(StripOnce(arg.signature.cs)))
ExpectedBytes == Len(Utf8(ExpectedHex))

\* C17: timingSafeEqual is reached only with buffers of equal byte length
\* (it raises RangeError otherwise, which never happens): a header whose
\* stripped part differs in byte length from the expected hex digest, a
\* truncated or an over-long one, verifies as false.
C17_LengthCheckedBeforeComparison ==
  (Verified /\ ~SecretMissing) =>
     /\ ~(ret.kind = "throw" /\ ret.error.class = "RangeError")
     /\ (~HeaderMissing /\ StrippedBytes # ExpectedBytes) => ret = Return(FALSE)

\* a truncated signature
C17_Witness ==
  /\ Verified
  /\ ~SecretMissing
  /\ arg.signature = Chars(Sha256Prefix \o SubSeq(ExpectedHex, 1, DigestLen - 1))
  /\ StrippedBytes < ExpectedBytes
  /\ ret = Return(FALSE)

\* C20: for a client built with a non-empty appSecret, verifyWebhook(signature,
\* rawBody) has the outcome of verifyWebhookSignature({signature, rawBody,
\* appSecret}) with that secret; and a string body verifies as the Buffer of
\* its UTF-8 bytes does.
C20_ClientMethodEquivalent ==
  (Verified /\ ~SecretMissing) =>
     /\ op = "verifyWebhook" => ret = verifyWebhookSignature(arg)
     /\ arg.rawBody.t = "string" =>
          ret = verifyWebhookSignature(
                  [arg EXCEPT !.rawBody = Buffer(Utf8(arg.rawBody.cs))])

\* a string body of one two-byte character, its signature, through the client
C20_Witness ==
  /\ Verified
  /\ op = "verifyWebhook"
  /\ arg.rawBody = Chars(<<"é">>)
  /\ arg.appSecret = Chars(<<"k">>)
  /\ arg.signature = Chars(Sha256Prefix \o HmacHex(Utf8(<<"k">>), <<195, 169>>))
  /\ ret = Return(TRUE)

\* position of the first byte at which the stripped header and the
\* expected digest differ (0 when they are equal), for equal byte lengths
FirstDifference(sig) ==
  LET a == Utf8(StripOnce(sig.cs))
      b == Utf8(ExpectedHex)
      D == { i \in 1..Len(a) : a[i] # b[i] }
  IN IF D = {} THEN 0 ELSE CHOOSE i \in D : \A k \in D : i <= k

\* C25: the supplied and the expected digest are compared only by the
\* constant-time primitive: for a given secret and body, every header whose
\* stripped part has the byte length of the expected digest costs the
\* comparison as many byte pairs as the matching header does, wherever its
\* first differing byte is.
C25_WorkIndependentOfFirstDifference ==
  (op \in {"verifyWebhookSignature", "verifyWebhook"} /\ ret # Pending
     /\ ~SecretMissing /\ ~HeaderMissing /\ StrippedBytes = ExpectedBytes) =>
     comparisonWork(arg) = comparisonWork([arg EXCEPT !.signature = Chars(ExpectedHex)])

C25_Witness ==
  /\ op = "verifyWebhookSignature"
  /\ ret = Return(FALSE)
  /\ ~SecretMissing
  /\ ~HeaderMissing
  /\ StrippedBytes = ExpectedBytes
  /\ FirstDifference(arg.signature) = 1
  /\ Utf8(StripOnce(arg.signature.cs))[DigestLen] = Utf8(ExpectedHex)[DigestLen]
  /\ comparisonWork(arg) = ExpectedBytes

(***************************************************************************)
(* WABAClient.getMedia: the two-step media retrieval.                      *)
(*                                                                         *)
(* An invocation is a record                                               *)
(*   mediaId, options   the arguments                                      *)
(*   pc                 "metadata": awaiting the step-1 fetch              *)
(*                      "metadata-body": awaiting response.json() or       *)
(*                                       response.text() of step 1         *)
(*                      "download": awaiting the step-2 fetch              *)
(*                      "reading": awaiting response.arrayBuffer()         *)
(*                      "done": settled                                    *)
(*   requests           the fetch calls it has made, in order              *)
(*   responses          what each fetch settled with, in order             *)
(*   metadata           what fetchMediaMetadata returned, or undefined     *)
(*   drained            bytes getMedia has read from the step-2 body       *)
(*   outcome            pending, the returned result or the thrown error   *)
(***************************************************************************)
\* A URL: the Graph API URL `${baseUrl}/${apiVersion}/${mediaId}` has token 0;
\* a temporary download URL carries the token the media server signed it with.
GraphUrl(baseUrl, apiVersion, mediaId) ==
  [base |-> baseUrl, path |-> <<apiVersion, mediaId>>, token |-> 0]
TemporaryUrl(mediaId, n) ==
  [base |-> "https://lookaside.fbsbx.com", path |-> <<"media", mediaId>>, token |-> n]

\* fetch(url, {method: 'GET', headers: {Authorization: `Bearer ${accessToken}`}})
FetchRequest(this, step, url) ==
  [step |-> step, method |-> "GET", url |-> url,
   authorization |-> <<"Bearer", this.accessToken>>]

\* A rejection of fetch and a response of the server
Rejected(reason) == [t |-> "rejected", reason |-> reason]
ErrorInstance(class, message) == [t |-> "error", class |-> class, message |-> message]

\* response.ok
IsOk(status) == status >= 200 /\ status <= 299

WABANetworkError(message, cause) ==
  [t |-> "error", class |-> "WABANetworkError", message |-> message, code |-> Undef,
   cause |-> cause]
\* Mutant of WABAMediaError: the status code is not handed to the base class.
WABAMediaError_noCode(message, mediaId, code) ==
  [t |-> "error", class |-> "WABAMediaError", message |-> message, code |-> Undef,
   mediaId |-> mediaId]

WABAMediaError(message, mediaId, code) ==
  [t |-> "error", class |-> "WABAMediaError", message |-> message, code |-> code,
   mediaId |-> mediaId]

\* error instanceof Error ? error.message : 'Unknown error'
MessageOf(reason) == IF reason.t = "error" THEN reason.message ELSE "Unknown error"
\* response.text().catch(() => 'Unknown error')
ErrorBodyOf(r) == IF r.text.t = "string" THEN r.text.sv ELSE "Unknown error"
\* Mutant of CauseOf: the cause is dropped.
CauseOf_dropped(reason) == Undef

\* error instanceof Error ? error : undefined
CauseOf(reason) == IF reason.t = "error" THEN reason ELSE Undef

Settle(c, response, outcome) ==
  [c EXCEPT !.pc = "done", !.responses = Append(@, response), !.outcome = outcome]

\* getMedia(mediaId, options) up to its first await: fetchMediaMetadata has
\* called fetch on the Graph API URL.
getMedia(this, mediaId, options) ==
  [mediaId |-> mediaId, options |-> options, pc |-> "metadata",
   requests |-> <<FetchRequest(this, 1, GraphUrl(this.baseUrl, this.apiVersion, mediaId))>>,
   responses |-> <<>>, metadata |-> Undef, drained |-> 0, outcome |-> Pending]

\* Mutant of Normalize: file_size is copied as it came.
Normalize_rawFileSize(data) ==
  [id |-> data.id, mimeType |-> data.mime_type, sha256 |-> data.sha256,
   fileSize |-> data.file_size, url |-> data.url]

\* The normalised metadata of a step-1 success body
Normalize(data) ==
  [id |-> data.id, mimeType |-> data.mime_type, sha256 |-> data.sha256,
   fileSize |-> parseInt(data.file_size), url |-> data.url]

\* Mutant of downloadTarget: the URL of an earlier invocation for the same
\* media is used again.
downloadTarget_cached(cs, i, metadata) ==
  LET earlier == { j \in 1..Len(cs) : /\ j # i
                                       /\ cs[j].mediaId = cs[i].mediaId
                                       /\ cs[j].metadata # Undef }
  IN IF earlier = {} THEN metadata.url
     ELSE cs[CHOOSE j \in earlier : \A k \in earlier : j <= k].metadata.url

\* the URL getMedia hands to downloadMedia: metadata.url
downloadTarget(cs, i, metadata) == metadata.url

\* the body of a response that has not been read yet, a body whose read
\* fails, a body that is no JSON
Unread == [t |-> "unread"]
Unreadable == [t |-> "unreadable"]
InvalidJson == [t |-> "invalid"]

\* Invocation i of cs resumes with the settlement of its step-1 fetch:
\* fetchMediaMetadata up to its read of the response body, response.text()
\* of a failure status and response.json() of a success status.
onMetadataSettled(this, cs, i, r) ==
  LET c == cs[i] IN
  IF r.t = "rejected"
    THEN Settle(c, r, Throw(WABANetworkError(
           <<"Failed to fetch media metadata", MessageOf(r.reason)>>, CauseOf(r.reason))))
  ELSE [c EXCEPT !.pc = "metadata-body", !.responses = Append(@, r)]

\* Invocation i of cs resumes with the settlement of the body read of its
\* step-1 response: the rest of fetchMediaMetadata and getMedia up to the
\* step-2 fetch. A failed response.text() is caught, a failed
\* response.json() is thrown as it is, and so is the TypeError of reading
\* data.id of the JSON value null.
onMetadataBodySettled(this, cs, i, body) ==
  LET c == cs[i]
      r == c.responses[Len(c.responses)]
  IN
  IF ~IsOk(r.status)
    THEN LET read == [r EXCEPT !.text = body] IN
         [c EXCEPT !.pc = "done",
                   !.responses = [@ EXCEPT ![Len(@)] = read],
                   !.outcome = Throw(WABAMediaError(
                     <<"Failed to fetch media metadata", r.status, ErrorBodyOf(read)>>,
                     c.mediaId, Num(r.status)))]
  ELSE
    LET read == [r EXCEPT !.json = body] IN
    IF body = Unreadable
      THEN [c EXCEPT !.pc = "done",
                     !.responses = [@ EXCEPT ![Len(@)] = read],
                     !.outcome = Throw(ErrorInstance("TypeError", "terminated"))]
    ELSE IF body = InvalidJson
      THEN [c EXCEPT !.pc = "done",
                     !.responses = [@ EXCEPT ![Len(@)] = read],
                     !.outcome = Throw(ErrorInstance("SyntaxError", "Unexpected token"))]
    ELSE IF body = Null
      THEN [c EXCEPT !.pc = "done",
                     !.responses = [@ EXCEPT ![Len(@)] = read],
                     !.outcome = Throw(ErrorInstance("TypeError",
                                   "Cannot read properties of null (reading 'id')"))]
    ELSE
      LET metadata == Normalize(body) IN
      [c EXCEPT !.pc = "download",
                !.responses = [@ EXCEPT ![Len(@)] = read],
                !.metadata = metadata,
                !.requests = Append(@, FetchRequest(this, 2, downloadTarget(cs, i, metadata)))]

\* Mutant of onDownloadSettled: a 404 of the temporary URL starts over with a
\* new metadata request.
onDownloadSettled_retry404(this, cs, i, r) ==
  LET c == cs[i] IN
  IF r.t = "rejected"
    THEN Settle(c, r, Throw(WABANetworkError(
           <<"Failed to download media", MessageOf(r.reason)>>, CauseOf(r.reason))))
  ELSE IF r.status = 404
    THEN [c EXCEPT !.pc = "metadata",
                   !.responses = Append(@, r),
                   !.requests = Append(@, FetchRequest(this, 1,
                                  GraphUrl(this.baseUrl, this.apiVersion, c.mediaId)))]
  ELSE IF ~IsOk(r.status)
    THEN Settle(c, r, Throw(WABAMediaError(
           <<"Failed to download media", r.status>>, c.mediaId, Num(r.status))))
  ELSE IF c.options # Undef /\ c.options.asBuffer
    THEN [c EXCEPT !.pc = "reading", !.responses = Append(@, r)]
  ELSE IF r.body = Null
    THEN Settle(c, r, Throw(WABAMediaError(<<"Response body is null">>, c.mediaId, Undef)))
  ELSE Settle(c, r, Return([stream |-> r.body] @@ c.metadata))

\* Mutant of onDownloadSettled: with asBuffer the result is returned as soon
\* as the response is there, before its body is read.
onDownloadSettled_returnsUnread(this, cs, i, r) ==
  LET c == cs[i] IN
  IF r.t = "rejected"
    THEN Settle(c, r, Throw(WABANetworkError(
           <<"Failed to download media", MessageOf(r.reason)>>, CauseOf(r.reason))))
  ELSE IF ~IsOk(r.status)
    THEN Settle(c, r, Throw(WABAMediaError(
           <<"Failed to download media", r.status>>, c.mediaId, Num(r.status))))
  ELSE IF c.options # Undef /\ c.options.asBuffer
    THEN Settle(c, r, Return([buffer |-> <<>>] @@ c.metadata))
  ELSE IF r.body = Null
    THEN Settle(c, r, Throw(WABAMediaError(<<"Response body is null">>, c.mediaId, Undef)))
  ELSE Settle(c, r, Return([stream |-> r.body] @@ c.metadata))

\* Invocation i of cs resumes with the settlement of its step-2 fetch: the
\* rest of downloadMedia and of getMedia up to the return or to
\* response.arrayBuffer().
onDownloadSettled(this, cs, i, r) ==
  LET c == cs[i] IN
  IF r.t = "rejected"
    THEN Settle(c, r, Throw(WABANetworkError(
           <<"Failed to download media", MessageOf(r.reason)>>, CauseOf(r.reason))))
  ELSE IF ~IsOk(r.status)
    THEN Settle(c, r, Throw(WABAMediaError(
           <<"Failed to download media", r.status>>, c.mediaId, Num(r.status))))
  ELSE IF c.options # Undef /\ c.options.asBuffer
    THEN [c EXCEPT !.pc = "reading", !.responses = Append(@, r)]
  ELSE IF r.body = Null
    THEN Settle(c, r, Throw(WABAMediaError(<<"Response body is null">>, c.mediaId, Undef)))
  ELSE Settle(c, r, Return([stream |-> r.body] @@ c.metadata))

\* Mutant of onArrayBufferSettled: the response is kept in a field of the
\* client, so the body read is that of the latest download of any invocation.
onArrayBufferSettled_sharedResponse(this, cs, i) ==
  LET c == cs[i]
      holders == { j \in 1..Len(cs) : /\ Len(cs[j].responses) = 2
                                       /\ cs[j].responses[2].t = "response"
                                       /\ IsOk(cs[j].responses[2].status) }
      latest == CHOOSE j \in holders : \A k \in holders : k <= j
      body == cs[latest].responses[2].body
  IN IF body # Null /\ ~body.readable
       THEN [c EXCEPT !.pc = "done",
                      !.outcome = Throw(ErrorInstance("TypeError", "terminated"))]
       ELSE LET buffer == IF body = Null THEN <<>> ELSE body.bytes IN
            [c EXCEPT !.pc = "done",
                      !.drained = Len(buffer),
                      !.outcome = Return([buffer |-> buffer] @@ c.metadata)]

\* Invocation i of cs resumes with the settlement of response.arrayBuffer():
\* the whole body in a buffer (an empty one for a null body), or the error of
\* a body that cannot be read.
onArrayBufferSettled(this, cs, i) ==
  LET c == cs[i]
      body == c.responses[Len(c.responses)].body
  IN IF body # Null /\ ~body.readable
       THEN [c EXCEPT !.pc = "done",
                      !.outcome = Throw(ErrorInstance("TypeError", "terminated"))]
       ELSE LET buffer == IF body = Null THEN <<>> ELSE body.bytes IN
            [c EXCEPT !.pc = "done",
                      !.drained = Len(buffer),
                      !.outcome = Return([buffer |-> buffer] @@ c.metadata)]

(***************************************************************************)
(* Spec: getMedia invocations on one client, in any interleaving, against  *)
(* a network and a media server that settle each fetch in any way.         *)
(***************************************************************************)
\* Number of getMedia invocations in one behaviour
MaxCalls == 2

GetMediaOptions == {Undef, [asBuffer |-> TRUE]}
FailureStatuses == {401, 404}

\* what fetch rejects with: the TypeError of a failed connection, the
\* AbortError of a timeout or cancellation
TransportFailures ==
  {ErrorInstance("TypeError", "fetch failed"),
   ErrorInstance("AbortError", "This operation was aborted")}

ClientOptions ==
  { [accessToken |-> "token", appSecret |-> Chars(<<"k">>), apiVersion |-> Undef,
     baseUrl |-> Undef] }

\* the step-1 success body for the media the URL names, with a fresh
\* temporary URL and the size of the media as a decimal string
RawMediaResponse(mediaId, n) ==
  [t |-> "object", messaging_product |-> "whatsapp", id |-> mediaId,
   mime_type |-> "image/jpeg", sha256 |-> "c0ffee",
   file_size |-> IF mediaId = "media1" THEN Chars(<<"2", "0", "4", "8">>)
                 ELSE Chars(<<"1", "0", "4", "8", "5", "7", "6", "0", "0">>),
   url |-> TemporaryUrl(mediaId, n)]

\* the ways the step-1 fetch can settle: a rejection, or a response whose
\* status and headers are there and whose body is still to be read
MetadataSettlements ==
  { Rejected(e) : e \in TransportFailures }
  \cup { [t |-> "response", status |-> st, text |-> Unread, json |-> Unread] :
           st \in {200, 500} \cup FailureStatuses }

\* the ways the body read of a step-1 response of that status can settle,
\* for an invocation for mediaId: the text of a failure (of a 500, a body
\* that breaks off); the JSON of a success, which is the media object with a
\* fresh temporary URL, null, no JSON, or a body that breaks off
MetadataBodySettlements(status, mediaId, n) ==
  IF status = 500 THEN {Unreadable}
  ELSE IF ~IsOk(status) THEN {Str("error body")}
  ELSE {RawMediaResponse(mediaId, n), Null, InvalidJson, Unreadable}

MediaBody(readable) == [t |-> "stream", bytes |-> <<1, 2, 3>>, readable |-> readable]

\* the ways the step-2 fetch can settle
DownloadSettlements ==
  { Rejected(e) : e \in TransportFailures }
  \cup { [t |-> "response", status |-> st, body |-> Null] : st \in FailureStatuses }
  \cup { [t |-> "response", status |-> 200, body |-> b] :
           b \in {MediaBody(TRUE), MediaBody(FALSE)} }
  \cup { [t |-> "response", status |-> 204, body |-> Null] }   \* a null-body status

Init ==
  /\ op = "getMedia"
  /\ arg = Undef
  /\ ret = Pending
  /\ client \in { WABAClient(o) : o \in ClientOptions }
  /\ calls = <<>>
  /\ issued = 0
  /\ host = NoHost

\* the caller invokes client.getMedia(mediaId, options)
CallGetMedia(mediaId, options) ==
  /\ Len(calls) < MaxCalls
  /\ calls' = Append(calls, getMedia(client, mediaId, options))
  /\ UNCHANGED <<op, arg, ret, client, issued, host>>

\* the step-1 fetch of invocation i settles
MetadataSettled(i) ==
  /\ calls[i].pc = "metadata"
  /\ \E r \in MetadataSettlements :
       calls' = [calls EXCEPT ![i] = onMetadataSettled(client, calls, i, r)]
  /\ UNCHANGED <<op, arg, ret, client, issued, host>>

\* response.json() or response.text() of the step-1 response of invocation i
\* settles
MetadataBodySettled(i) ==
  /\ calls[i].pc = "metadata-body"
  /\ \E body \in MetadataBodySettlements(calls[i].responses[1].status,
                                          calls[i].mediaId, issued + 1) :
       /\ calls' = [calls EXCEPT ![i] = onMetadataBodySettled(client, calls, i, body)]
       /\ issued' = IF body.t = "object" THEN issued + 1 ELSE issued
  /\ UNCHANGED <<op, arg, ret, client, host>>

\* the step-2 fetch of invocation i settles
DownloadSettled(i) ==
  /\ calls[i].pc = "download"
  /\ \E r \in DownloadSettlements :
       calls' = [calls EXCEPT ![i] = onDownloadSettled(client, calls, i, r)]
  /\ UNCHANGED <<op, arg, ret, client, issued, host>>

\* response.arrayBuffer() of invocation i settles
ArrayBufferSettled(i) ==
  /\ calls[i].pc = "reading"
  /\ calls' = [calls EXCEPT ![i] = onArrayBufferSettled(client, calls, i)]
  /\ UNCHANGED <<op, arg, ret, client, issued, host>>

Next ==
  \/ \E m \in {"media1", "media2"}, o \in GetMediaOptions : CallGetMedia(m, o)
  \/ \E i \in 1..Len(calls) : MetadataSettled(i)
  \/ \E i \in 1..Len(calls) : MetadataBodySettled(i)
  \/ \E i \in 1..Len(calls) : DownloadSettled(i)
  \/ \E i \in 1..Len(calls) : ArrayBufferSettled(i)

Spec == Init /\ [][Next]_vars

(***************************************************************************)
(* SpecConcurrent: getMedia invocations for one media and verifyWebhook    *)
(* calls on the same client, in any interleaving.  verifyWebhook is        *)
(* synchronous: it runs between two resumptions of the invocations.        *)
(***************************************************************************)
\* the settlements of this specification: a failed connection, a 404, a
\* success with the media object, with a readable or a null body
CommonSettlement(r) ==
  IF r.t = "rejected" THEN r.reason.class = "TypeError"
  ELSE /\ r.status \in {200, 204, 404}
       /\ ("json" \in DOMAIN r /\ r.status = 200) => r.json.t \in {"unread", "object"}
       /\ "body" \in DOMAIN r => r.body # MediaBody(FALSE)

LastResponse(c) == c.responses[Len(c.responses)]

ConcurrentBody == Buffer(<<97>>)

InitConcurrent ==
  /\ op = "WABAClient"
  /\ arg = Undef
  /\ ret = Pending
  /\ client \in { WABAClient(o) : o \in ClientOptions }
  /\ calls = <<>>
  /\ issued = 0
  /\ host = NoHost

\* the caller invokes client.verifyWebhook(signature, rawBody)
VerifyWebhookCalled(signature, rawBody) ==
  /\ arg' = [signature |-> signature, rawBody |-> rawBody]
  /\ ret' = verifyWebhook(client, signature, rawBody)
  /\ UNCHANGED <<op, client, calls, issued, host>>

NextConcurrent ==
  \/ \E o \in GetMediaOptions : CallGetMedia("media1", o)
  \/ \E i \in 1..Len(calls) : MetadataSettled(i) /\ CommonSettlement(LastResponse(calls'[i]))
  \/ \E i \in 1..Len(calls) :
       MetadataBodySettled(i) /\ CommonSettlement(LastResponse(calls'[i]))
  \/ \E i \in 1..Len(calls) : DownloadSettled(i) /\ CommonSettlement(LastResponse(calls'[i]))
  \/ \E i \in 1..Len(calls) : ArrayBufferSettled(i)
  \* no header, the signature of the body under the client's secret, the
  \* signature under another secret
  \/ \E h \in {Undef} \cup { Chars(Sha256Prefix \o HmacHex(Utf8(k), ConcurrentBody.bytes)) :
                                k \in {<<"k">>, <<"q">>} } :
       VerifyWebhookCalled(h, ConcurrentBody)

SpecConcurrent == InitConcurrent /\ [][NextConcurrent]_vars

(***************************************************************************)
(* Properties of getMedia (Spec).                                          *)
(***************************************************************************)
Invocations == 1..Len(calls)

RequestsOf(c, step) == { k \in 1..Len(c.requests) : c.requests[k].step = step }

\* a settlement that is a success response of step 1: it carries a URL
IsMetadataSuccess(r) == r.t = "response" /\ IsOk(r.status) /\ r.json.t = "object"

\* a settlement that is a response with a non-success status
IsFailureStatus(r) == r.t = "response" /\ ~IsOk(r.status)

\* the temporary URLs invocation j has obtained
UrlsObtained(j) ==
  { calls[j].responses[k].json.url :
      k \in { n \in 1..Len(calls[j].responses) :
                calls[j].requests[n].step = 1 /\ IsMetadataSuccess(calls[j].responses[n]) } }

\* C6: a step-2 request exists only once the invocation's own step-1 request
\* has got a success response, it targets the URL of that response, and it
\* targets no URL another invocation obtained.
C6_FreshUrlPerInvocation ==
  \A i \in Invocations : \A k \in RequestsOf(calls[i], 2) :
     /\ k > 1
     /\ Len(calls[i].responses) >= k - 1
     /\ calls[i].requests[k - 1].step = 1
     /\ IsMetadataSuccess(calls[i].responses[k - 1])
     /\ calls[i].requests[k].url = calls[i].responses[k - 1].json.url
     /\ \A j \in Invocations \ {i} : calls[i].requests[k].url \notin UrlsObtained(j)

\* two invocations for the same media, the second one's metadata arriving
\* first, both with their download requested
C6_Witness ==
  /\ Len(calls) = 2
  /\ calls[1].mediaId = calls[2].mediaId
  /\ RequestsOf(calls[1], 2) # {}
  /\ RequestsOf(calls[2], 2) # {}
  /\ calls[2].metadata.url.token < calls[1].metadata.url.token

\* C7: an invocation that has received a non-success status s in either
\* step is settled, or (in step 1) still reading the text of that response
\* with nothing else done; once settled it has failed with a MediaError
\* carrying the invocation's media id and the code s; and after such a
\* response of step 1 no step-2 request exists.
C7_StatusBecomesMediaError ==
  \A i \in Invocations : \A k \in 1..Len(calls[i].responses) :
     IsFailureStatus(calls[i].responses[k]) =>
        /\ (calls[i].requests[k].step = 1 => RequestsOf(calls[i], 2) = {})
        /\ IF calls[i].pc = "done"
             THEN /\ calls[i].outcome.kind = "throw"
                  /\ calls[i].outcome.error.class = "WABAMediaError"
                  /\ calls[i].outcome.error.mediaId = calls[i].mediaId
                  /\ calls[i].outcome.error.code = Num(calls[i].responses[k].status)
             ELSE /\ calls[i].pc = "metadata-body"
                  /\ calls[i].requests[k].step = 1
                  /\ calls[i].responses[k].text = Unread
                  /\ calls[i].outcome = Pending

C7_Witness ==
  /\ Len(calls) = 2
  /\ Len(calls[1].responses) = 1
  /\ calls[1].pc = "done"
  /\ IsFailureStatus(calls[1].responses[1])
  /\ calls[1].outcome.error.code = Num(401)
  /\ Len(calls[2].responses) = 2
  /\ IsFailureStatus(calls[2].responses[2])
  /\ calls[2].outcome.error.code = Num(404)
  /\ calls[2].outcome.error.mediaId = "media2"

TotalRequests(cs, step) ==
  Cardinality({ <<i, k>> \in (1..Len(cs)) \X (1..2 * Len(cs) + 2) :
                  k <= Len(cs[i].requests) /\ cs[i].requests[k].step = step })

\* C8: an invocation issues its metadata request and its download request at
\* most once each, a settled invocation (a 404 of the download included)
\* issues nothing further, and the number of step-1 requests grows only by a
\* new getMedia call.
C8_NoRetry ==
  [][ /\ \A i \in Invocations :
           /\ Cardinality(RequestsOf(calls'[i], 1)) <= 1
           /\ Cardinality(RequestsOf(calls'[i], 2)) <= 1
           /\ (calls[i].pc = "done" => calls'[i] = calls[i])
           /\ (/\ calls[i].pc = "download"
               /\ Len(calls'[i].responses) > Len(calls[i].responses)
               /\ IsFailureStatus(calls'[i].responses[Len(calls'[i].responses)])
               => /\ calls'[i].pc = "done"
                  /\ calls'[i].outcome.kind = "throw"
                  /\ calls'[i].outcome.error.class = "WABAMediaError"
                  /\ calls'[i].requests = calls[i].requests)
      /\ TotalRequests(calls', 1) > TotalRequests(calls, 1) =>
           /\ Len(calls') = Len(calls) + 1
           /\ TotalRequests(calls', 1) = TotalRequests(calls, 1) + 1 ]_vars

\* a download ended with 404 and the caller called getMedia again for the
\* same media
C8_Witness ==
  /\ Len(calls) = 2
  /\ calls[1].pc = "done"
  /\ Len(calls[1].responses) = 2
  /\ calls[1].responses[2].t = "response"
  /\ calls[1].responses[2].status = 404
  /\ calls[1].outcome.kind = "throw"
  /\ Len(calls[1].requests) = 2
  /\ calls[2].mediaId = calls[1].mediaId
  /\ calls[2].pc = "download"

\* C9: a rejected fetch in either step fails the invocation with a
\* NetworkError whose cause is the rejection, never with a MediaError and
\* never with the rejection itself.
C9_RejectionBecomesNetworkError ==
  \A i \in Invocations : \A k \in 1..Len(calls[i].responses) :
     calls[i].responses[k].t = "rejected" =>
        /\ calls[i].pc = "done"
        /\ calls[i].outcome.kind = "throw"
        /\ calls[i].outcome.error.class = "WABANetworkError"
        /\ calls[i].outcome.error.cause = calls[i].responses[k].reason
        /\ calls[i].outcome.error # calls[i].responses[k].reason

C9_Witness ==
  /\ Len(calls) = 2
  /\ calls[1].responses = <<Rejected(ErrorInstance("TypeError", "fetch failed"))>>
  /\ calls[1].outcome.error.class = "WABANetworkError"
  /\ Len(calls[2].responses) = 2
  /\ calls[2].responses[2] = Rejected(ErrorInstance("AbortError", "This operation was aborted"))
  /\ calls[2].outcome.error.cause = ErrorInstance("AbortError", "This operation was aborted")

\* options?.asBuffer
WantsBuffer(c) == c.options # Undef /\ c.options.asBuffer

\* the body of the step-2 response of invocation c, and its bytes
DownloadedBody(c) == c.responses[Len(c.responses)].body
BytesOf(body) == IF body = Null THEN <<>> ELSE body.bytes

MetadataFields == {"id", "mimeType", "sha256", "fileSize", "url"}

\* C18: an invocation that returns without asBuffer returns the metadata and
\* the step-2 response body as a stream of which it has read nothing; one
\* that returns with asBuffer returns the metadata and a buffer holding the
\* whole body, read in full, and no stream; while the body is being read the
\* invocation has not returned.
C18_StreamOrDrainedBuffer ==
  \A i \in Invocations :
     LET c == calls[i] IN
     /\ c.pc = "reading" => (WantsBuffer(c) /\ c.outcome = Pending /\ c.drained = 0)
     /\ c.outcome.kind = "return" =>
          /\ c.pc = "done"
          /\ \A k \in MetadataFields : c.outcome.value[k] = c.metadata[k]
          /\ IF WantsBuffer(c)
               THEN /\ DOMAIN c.outcome.value = MetadataFields \cup {"buffer"}
                    /\ c.outcome.value.buffer = BytesOf(DownloadedBody(c))
                    /\ c.drained = Len(BytesOf(DownloadedBody(c)))
               ELSE /\ DOMAIN c.outcome.value = MetadataFields \cup {"stream"}
                    /\ c.outcome.value.stream = DownloadedBody(c)
                    /\ c.drained = 0

\* one invocation returned the stream, the other the buffer of the same body
C18_Witness ==
  /\ Len(calls) = 2
  /\ ~WantsBuffer(calls[1])
  /\ calls[1].outcome.kind = "return"
  /\ calls[1].outcome.value.stream = MediaBody(TRUE)
  /\ WantsBuffer(calls[2])
  /\ calls[2].outcome.kind = "return"
  /\ calls[2].outcome.value.buffer = <<1, 2, 3>>
  /\ calls[2].drained = 3

\* a step-1 settlement as fetch delivered it, and what reading its body gave
AsReceived(r) == IF r.t = "response" THEN [r EXCEPT !.text = Unread, !.json = Unread] ELSE r
BodyRead(r) == IF IsOk(r.status) THEN r.json ELSE r.text

\* The invocation c run alone on the client `this` against the responses c
\* has received: the only invocation there is.
RunAlone(this, c) ==
  LET c0 == getMedia(this, c.mediaId, c.options)
      c1 == IF Len(c.responses) >= 1
              THEN onMetadataSettled(this, <<c0>>, 1, AsReceived(c.responses[1])) ELSE c0
      c1b == IF c1.pc = "metadata-body" /\ BodyRead(c.responses[1]) # Unread
               THEN onMetadataBodySettled(this, <<c1>>, 1, BodyRead(c.responses[1])) ELSE c1
      c2 == IF Len(c.responses) >= 2
              THEN onDownloadSettled(this, <<c1b>>, 1, c.responses[2]) ELSE c1b
  IN IF c2.pc = "reading" /\ c.pc = "done"
       THEN onArrayBufferSettled(this, <<c2>>, 1) ELSE c2

\* C19: in every interleaving of getMedia and verifyWebhook calls on one
\* client, the client's four fields keep the values of its construction, no
\* step changes them, every getMedia invocation is where it would be if it
\* were the only one and had received the same responses, and every
\* verifyWebhook call has the outcome of the verification with the secret of
\* the construction.
C19_ConcurrentCallsIsolated ==
  /\ [](\A o \in ClientOptions :
          /\ client = WABAClient(o)
          /\ \A i \in Invocations : calls[i] = RunAlone(WABAClient(o), calls[i])
          /\ ret # Pending =>
               ret = verifyWebhookSignature(
                       [signature |-> arg.signature, rawBody |-> arg.rawBody,
                        appSecret |-> o.appSecret]))
  /\ [][client' = client]_vars

\* the second invocation overtook the first, which has read its buffer, and
\* a webhook was verified while the second is still in flight
C19_Witness ==
  /\ Len(calls) = 2
  /\ calls[1].outcome.kind = "return"
  /\ WantsBuffer(calls[1])
  /\ calls[1].outcome.value.buffer = <<1, 2, 3>>
  /\ calls[2].pc = "reading"
  /\ DownloadedBody(calls[2]) = Null
  /\ calls[2].metadata.url.token < calls[1].metadata.url.token
  /\ ret = Return(TRUE)

\* the body of the step-1 success response of invocation c
MetadataBody(c) == c.responses[1].json

\* C21: the result of a successful getMedia has the id, mime_type, sha256 and
\* url of the step-1 response as id, mimeType, sha256 and url, and as fileSize
\* the number the decimal string file_size denotes, not the string.
C21_MetadataNormalised ==
  \A i \in Invocations :
     LET c == calls[i] IN
     c.outcome.kind = "return" =>
        /\ c.outcome.value.id = MetadataBody(c).id
        /\ c.outcome.value.mimeType = MetadataBody(c).mime_type
        /\ c.outcome.value.sha256 = MetadataBody(c).sha256
        /\ c.outcome.value.url = MetadataBody(c).url
        /\ c.outcome.value.fileSize = Num(DecimalValue(MetadataBody(c).file_size.cs))
        /\ c.outcome.value.fileSize # MetadataBody(c).file_size

\* file_size "2048" has become the number 2048 in a returned result
C21_Witness ==
  /\ Len(calls) >= 1
  /\ calls[1].outcome.kind = "return"
  /\ MetadataBody(calls[1]).file_size = Chars(<<"2", "0", "4", "8">>)
  /\ calls[1].outcome.value.fileSize = Num(2048)
  /\ calls[1].outcome.value.id = "media1"

\* C28: every failure of a getMedia invocation is a WABAMediaError or a
\* WABANetworkError, a step-1 success body that is not valid JSON and a
\* step-2 body that cannot be read to its end (asBuffer) included.
C28_OnlyMediaOrNetworkErrors ==
  \A i \in Invocations :
     calls[i].outcome.kind = "throw" =>
        calls[i].outcome.error.class \in {"WABAMediaError", "WABANetworkError"}

\* The failures that come from a rejected fetch or a non-success status
\* are of the two kinds.
TypedErrorsOnRejectionOrStatus ==
  \A i \in Invocations : LET c == calls[i] IN
     (/\ c.outcome.kind = "throw"
      /\ \/ LastResponse(c).t = "rejected"
         \/ IsFailureStatus(LastResponse(c))) =>
        c.outcome.error.class \in {"WABAMediaError", "WABANetworkError"}

InvalidJsonReached ==
  /\ Len(calls) >= 1
  /\ calls[1].outcome = Throw(ErrorInstance("SyntaxError", "Unexpected token"))
  /\ Len(calls[1].responses) = 1

\* the step-1 success body breaks off while response.json() reads it
MetadataReadFailureReached ==
  /\ Len(calls) >= 1
  /\ calls[1].outcome = Throw(ErrorInstance("TypeError", "terminated"))
  /\ Len(calls[1].responses) = 1
  /\ calls[1].responses[1].json = Unreadable

\* the step-1 success body is the JSON value null
NullJsonReached ==
  /\ Len(calls) >= 1
  /\ calls[1].outcome.kind = "throw"
  /\ calls[1].outcome.error.class = "TypeError"
  /\ Len(calls[1].responses) = 1
  /\ calls[1].responses[1].json = Null

\* an invocation has its step-1 response and is reading its body while
\* another invocation is called and settles
BetweenFetchAndBody ==
  /\ Len(calls) = 2
  /\ calls[1].pc = "metadata-body"
  /\ Len(calls[1].responses) = 1
  /\ Len(calls[1].requests) = 1
  /\ calls[1].outcome = Pending
  /\ calls[2].pc = "done"

BodyReadFailureReached ==
  /\ Len(calls) >= 1
  /\ calls[1].outcome = Throw(ErrorInstance("TypeError", "terminated"))
  /\ WantsBuffer(calls[1])
  /\ Len(calls[1].responses) = 2

\* C29: every WABAMediaError raised by getMedia carries the media id and an
\* HTTP status code, never an undefined code (a successful step-2 response
\* without a body in stream mode included).
C29_MediaErrorCarriesIdAndCode ==
  \A i \in Invocations : LET c == calls[i] IN
     (c.outcome.kind = "throw" /\ c.outcome.error.class = "WABAMediaError") =>
        /\ c.outcome.error.mediaId = c.mediaId
        /\ c.outcome.error.code.t = "number"

\* A WABAMediaError raised for a non-success status carries that status.
MediaErrorOfStatusCarriesCode ==
  \A i \in Invocations : LET c == calls[i] IN
     (c.outcome.kind = "throw" /\ c.outcome.error.class = "WABAMediaError"
        /\ IsFailureStatus(LastResponse(c))) =>
        /\ c.outcome.error.mediaId = c.mediaId
        /\ c.outcome.error.code = Num(LastResponse(c).status)

NullBodyReached ==
  /\ Len(calls) >= 1
  /\ ~WantsBuffer(calls[1])
  /\ Len(calls[1].responses) = 2
  /\ calls[1].responses[2].t = "response"
  /\ IsOk(calls[1].responses[2].status)
  /\ calls[1].outcome.kind = "throw"
  /\ calls[1].outcome.error.class = "WABAMediaError"
  /\ calls[1].outcome.error.code = Undef

(***************************************************************************)
(* CLI configuration: the config manager.  The host holds                  *)
(*   env       the five WABA_TOOLKIT_ environment variables                *)
(*   file      the config file: absent, holding a Config, not decryptable, *)
(*             or not readable                                             *)
(*   backups   the backup files there are, each named by the second it was *)
(*             made in                                                     *)
(*   now       the clock, in seconds                                       *)
(***************************************************************************)
\* a || b
Or(a, b) == IF Truthy(a) THEN a ELSE b

WABAConfigError(message, field) ==
  [t |-> "error", class |-> "WABAConfigError", message |-> message, field |-> field]

\* loadConfig(): the Config or null, and the host it leaves behind.  A file
\* that does not decrypt is reported and backupConfig renames it to the
\* backup named by the present second, in the place of a backup of that name
\* (a rename that fails leaves the file where it is: renamed tells which);
\* an error of readFileSync is thrown on.
loadConfig(h, renamed) ==
  CASE h.file.t = "absent" -> [outcome |-> Return(Null), host |-> h]
    [] h.file.t = "config" -> [outcome |-> Return(Obj(h.file.config)), host |-> h]
    [] h.file.t = "undecryptable" ->
         [outcome |-> Return(Null),
          host |-> IF renamed
                     THEN [h EXCEPT !.file = [t |-> "absent"], !.backups = @ \cup {h.now}]
                     ELSE h]
    [] h.file.t = "unreadable" ->
         [outcome |-> Throw(ErrorInstance("Error", "EACCES: permission denied")), host |-> h]

\* saveConfig(config): writeFileSync of the encrypted Config.  written tells
\* how the write went: "written", "refused" (the file could not be opened
\* for writing) or "truncated" (it was opened, and the write failed).  A
\* write keeps the mode of a file that is there, so a file that cannot be
\* read stays one.  The file holds JSON.stringify(config): the fields that
\* are not undefined.
saveConfig(h, config, written) ==
  CASE written = "written" ->
         [outcome |-> Return(Undef),
          host |-> IF h.file.t = "unreadable" THEN h
                   ELSE [h EXCEPT !.file =
                           [t |-> "config",
                            config |-> [k \in { f \in DOMAIN config.f : config.f[f] # Undef } |->
                                          config.f[k]]]]]
    [] written = "refused" ->
         [outcome |-> Throw(WABAConfigError(
                        <<"Failed to save config", "EACCES: permission denied">>, Undef)),
          host |-> h]
    [] written = "truncated" ->
         [outcome |-> Throw(WABAConfigError(
                        <<"Failed to save config", "ENOSPC: no space left on device">>, Undef)),
          host |-> IF h.file.t = "unreadable" THEN h
                   ELSE [h EXCEPT !.file = [t |-> "undecryptable"]]]

\* updateConfigField(field, value): loadConfig() || {accessToken: ''}, the
\* field assigned, saveConfig
updateConfigField(h, field, value, renamed, written) ==
  LET loaded == loadConfig(h, renamed) IN
  IF loaded.outcome.kind = "throw" THEN loaded
  ELSE
    LET config == Or(loaded.outcome.value, Obj([accessToken |-> Str("")]))
        assigned == Obj([k \in DOMAIN config.f \cup {field} |->
                           IF k = field THEN value ELSE config.f[k]])
    IN saveConfig(loaded.host, assigned, written)

\* getConfig(): each field from its environment variable, else from the
\* config file; apiVersion else 'v22.0'
getConfig(h, renamed) ==
  LET loaded == loadConfig(h, renamed) IN
  IF loaded.outcome.kind = "throw" THEN loaded
  ELSE
    LET fileConfig == Or(loaded.outcome.value, Obj(<<>>)) IN
    [outcome |-> Return(Obj(
       [accessToken |-> Or(h.env.accessToken, GetProp(fileConfig, "accessToken")),
        defaultPhoneNumberId |->
          Or(h.env.phoneNumberId, GetProp(fileConfig, "defaultPhoneNumberId")),
        apiVersion |-> Or(Or(h.env.apiVersion, GetProp(fileConfig, "apiVersion")),
                          Str("v22.0")),
        wabaId |-> Or(h.env.wabaId, GetProp(fileConfig, "wabaId")),
        businessId |-> Or(h.env.businessId, GetProp(fileConfig, "businessId"))])),
     host |-> loaded.host]

\* process.env.WABA_TOOLKIT_ACCESS_TOKEN || loadConfig()?.accessToken
resolveAccessToken(h, renamed) ==
  IF Truthy(h.env.accessToken) THEN [outcome |-> Return(h.env.accessToken), host |-> h]
  ELSE
    LET loaded == loadConfig(h, renamed) IN
    IF loaded.outcome.kind = "throw" THEN loaded
    ELSE
      LET config == loaded.outcome.value
          accessToken == IF IsNullish(config) THEN Undef ELSE GetProp(config, "accessToken")
      IN [outcome |-> IF ~Truthy(accessToken)
                        THEN Throw(WABAConfigError("Access token not found", "accessToken"))
                        ELSE Return(accessToken),
          host |-> loaded.host]

\* Mutant of resolvePhoneNumberId: the environment variable is looked at
\* before the flag.
resolvePhoneNumberId_envFirst(h, flagValue, renamed) ==
  LET early == Or(h.env.phoneNumberId, flagValue) IN
  IF Truthy(early) THEN [outcome |-> Return(early), host |-> h]
  ELSE
    LET loaded == loadConfig(h, renamed) IN
    IF loaded.outcome.kind = "throw" THEN loaded
    ELSE
      LET config == loaded.outcome.value
          phoneNumberId == IF IsNullish(config) THEN Undef
                           ELSE GetProp(config, "defaultPhoneNumberId")
      IN [outcome |-> IF ~Truthy(phoneNumberId)
                        THEN Throw(WABAConfigError("No phone number ID specified",
                                                   "phoneNumberId"))
                        ELSE Return(phoneNumberId),
          host |-> loaded.host]

\* flagValue || process.env.WABA_TOOLKIT_PHONE_NUMBER_ID
\*   || loadConfig()?.defaultPhoneNumberId: loadConfig runs only when the
\* first two are falsy
resolvePhoneNumberId(h, flagValue, renamed) ==
  LET early == Or(flagValue, h.env.phoneNumberId) IN
  IF Truthy(early) THEN [outcome |-> Return(early), host |-> h]
  ELSE
    LET loaded == loadConfig(h, renamed) IN
    IF loaded.outcome.kind = "throw" THEN loaded
    ELSE
      LET config == loaded.outcome.value
          phoneNumberId == IF IsNullish(config) THEN Undef
                           ELSE GetProp(config, "defaultPhoneNumberId")
      IN [outcome |-> IF ~Truthy(phoneNumberId)
                        THEN Throw(WABAConfigError("No phone number ID specified",
                                                   "phoneNumberId"))
                        ELSE Return(phoneNumberId),
          host |-> loaded.host]

\* flagValue || process.env.WABA_TOOLKIT_WABA_ID || loadConfig()?.wabaId
resolveWabaId(h, flagValue, renamed) ==
  LET early == Or(flagValue, h.env.wabaId) IN
  IF Truthy(early) THEN [outcome |-> Return(early), host |-> h]
  ELSE
    LET loaded == loadConfig(h, renamed) IN
    IF loaded.outcome.kind = "throw" THEN loaded
    ELSE
      LET config == loaded.outcome.value
          wabaId == IF IsNullish(config) THEN Undef ELSE GetProp(config, "wabaId")
      IN [outcome |-> IF ~Truthy(wabaId)
                        THEN Throw(WABAConfigError("No WABA ID specified", "wabaId"))
                        ELSE Return(wabaId),
          host |-> loaded.host]

\* Number of seconds the clock advances in one behaviour
MaxSeconds == 1

\* the flag: not given, given empty, or an identifier
Flags == {Undef, Str(""), Str("flag-1")}

\* the config file: absent, not decryptable, not readable, or holding a
\* Config with its optional fields left out or present
ConfigFiles ==
  {[t |-> "absent"], [t |-> "undecryptable"], [t |-> "unreadable"]}
  \cup { [t |-> "config", config |-> [accessToken |-> Str("token")] @@ p @@ w] :
           p \in {<<>>} \cup { "defaultPhoneNumberId" :> v : v \in {Str(""), Str("cfg-phone")} },
           w \in {<<>>} \cup { "wabaId" :> v : v \in {Str(""), Str("cfg-waba")} } }

\* the environment at the start: the two identifiers unset, empty or set
\* beside no other variable, or every variable set; no backup has been made
InitConfig ==
  /\ op = "cli"
  /\ arg = Undef
  /\ ret = Pending
  /\ client = NoClient
  /\ calls = <<>>
  /\ issued = 0
  /\ host \in
       [env : { [accessToken |-> Undef, phoneNumberId |-> p, apiVersion |-> Undef,
                 wabaId |-> w, businessId |-> Undef] :
                  p \in {Undef, Str(""), Str("env-phone")},
                  w \in {Undef, Str(""), Str("env-waba")} }
              \cup { [accessToken |-> Str("env-token"), phoneNumberId |-> Str("env-phone"),
                       apiVersion |-> Str("v21.0"), wabaId |-> Str("env-waba"),
                       businessId |-> Str("env-business")] },
        file : ConfigFiles, backups : {{}}, now : {0}]

ResolvePhoneNumberId ==
  \E flagValue \in Flags, renamed \in BOOLEAN :
    /\ op' = "resolvePhoneNumberId"
    /\ arg' = flagValue
    /\ ret' = resolvePhoneNumberId(host, flagValue, renamed).outcome
    /\ host' = resolvePhoneNumberId(host, flagValue, renamed).host
    /\ UNCHANGED <<client, calls, issued>>

ResolveWabaId ==
  \E flagValue \in Flags, renamed \in BOOLEAN :
    /\ op' = "resolveWabaId"
    /\ arg' = flagValue
    /\ ret' = resolveWabaId(host, flagValue, renamed).outcome
    /\ host' = resolveWabaId(host, flagValue, renamed).host
    /\ UNCHANGED <<client, calls, issued>>

ResolveAccessToken ==
  \E renamed \in BOOLEAN :
    /\ op' = "resolveAccessToken"
    /\ arg' = Undef
    /\ ret' = resolveAccessToken(host, renamed).outcome
    /\ host' = resolveAccessToken(host, renamed).host
    /\ UNCHANGED <<client, calls, issued>>

GetConfig ==
  \E renamed \in BOOLEAN :
    /\ op' = "getConfig"
    /\ arg' = Undef
    /\ ret' = getConfig(host, renamed).outcome
    /\ host' = getConfig(host, renamed).host
    /\ UNCHANGED <<client, calls, issued>>

LoadConfig ==
  \E renamed \in BOOLEAN :
    /\ op' = "loadConfig"
    /\ arg' = Undef
    /\ ret' = loadConfig(host, renamed).outcome
    /\ host' = loadConfig(host, renamed).host
    /\ UNCHANGED <<client, calls, issued>>

SaveConfig ==
  \E config \in { Obj([accessToken |-> Str("tok"), wabaId |-> Str("w1")]),
                  Obj([accessToken |-> Str(""), defaultPhoneNumberId |-> Str("other"),
                       wabaId |-> Undef]) },
     written \in {"written", "refused", "truncated"} :
    /\ op' = "saveConfig"
    /\ arg' = config
    /\ ret' = saveConfig(host, config, written).outcome
    /\ host' = saveConfig(host, config, written).host
    /\ UNCHANGED <<client, calls, issued>>

UpdateConfigField ==
  \E field \in {"accessToken", "defaultPhoneNumberId", "apiVersion", "wabaId", "businessId"},
     renamed \in BOOLEAN,
     written \in {"written", "refused", "truncated"} :
    /\ op' = "updateConfigField"
    /\ arg' = Obj([field |-> Str(field), value |-> Str("p1")])
    /\ ret' = updateConfigField(host, field, Str("p1"), renamed, written).outcome
    /\ host' = updateConfigField(host, field, Str("p1"), renamed, written).host
    /\ UNCHANGED <<client, calls, issued>>

\* a second passes
Tick ==
  /\ host.now < MaxSeconds
  /\ host' = [host EXCEPT !.now = @ + 1]
  /\ UNCHANGED <<op, arg, ret, client, calls, issued>>

NextConfig ==
  \/ ResolvePhoneNumberId
  \/ ResolveWabaId
  \/ ResolveAccessToken
  \/ GetConfig
  \/ LoadConfig
  \/ SaveConfig
  \/ UpdateConfigField
  \/ Tick

SpecConfig == InitConfig /\ [][NextConfig]_vars

(***************************************************************************)
(* Properties of the configuration lookup (SpecConfig).                    *)
(***************************************************************************)
\* a value that was given: there and not empty
Given(v) == v # Undef /\ v # Null /\ v # Str("")

\* the environment variable and the stored field a resolver reads
EnvOf(h, name) ==
  IF name = "resolvePhoneNumberId" THEN h.env.phoneNumberId ELSE h.env.wabaId
StoredOf(h, name) ==
  IF h.file.t # "config" THEN Undef
  ELSE LET k == IF name = "resolvePhoneNumberId" THEN "defaultPhoneNumberId" ELSE "wabaId"
       IN IF k \in DOMAIN h.file.config THEN h.file.config[k] ELSE Undef

\* what a call of a resolver on host h with the flag is said to give
Resolved(h, name, flagValue, outcome) ==
  /\ Given(flagValue) => outcome = Return(flagValue)
  /\ (~Given(flagValue) /\ Given(EnvOf(h, name))) => outcome = Return(EnvOf(h, name))
  /\ (~Given(flagValue) /\ ~Given(EnvOf(h, name)) /\ Given(StoredOf(h, name))) =>
        outcome = Return(StoredOf(h, name))
  /\ (~Given(flagValue) /\ ~Given(EnvOf(h, name)) /\ ~Given(StoredOf(h, name))
        /\ h.file.t # "unreadable") =>
        /\ outcome.kind = "throw"
        /\ outcome.error.class = "WABAConfigError"
  /\ (outcome.kind = "throw" /\ outcome.error.class = "WABAConfigError") =>
        ~Given(flagValue) /\ ~Given(EnvOf(h, name)) /\ ~Given(StoredOf(h, name))

\* C26: resolvePhoneNumberId and resolveWabaId return the flag value when
\* one is given (not empty), else the environment variable when it is set,
\* else the value stored in the config file, and raise a WABAConfigError only
\* when all three are missing.
C26_FlagThenEnvThenConfig ==
  [][(op' \in {"resolvePhoneNumberId", "resolveWabaId"}) =>
        Resolved(host, op', arg', ret')]_vars

\* every level of the priority decides a call: a flag over a set variable
\* and a stored value
C26_Witness ==
  /\ op = "resolvePhoneNumberId"
  /\ arg = Str("flag-1")
  /\ host.env.phoneNumberId = Str("env-phone")
  /\ StoredOf(host, op) = Str("cfg-phone")
  /\ ret = Return(Str("flag-1"))

EnvDecides ==
  /\ op = "resolveWabaId"
  /\ ~Given(arg)
  /\ StoredOf(host, op) = Str("cfg-waba")
  /\ ret = Return(Str("env-waba"))

ConfigDecides ==
  /\ op = "resolvePhoneNumberId"
  /\ ~Given(arg)
  /\ ~Given(host.env.phoneNumberId)
  /\ ret = Return(Str("cfg-phone"))

AllMissing ==
  /\ op = "resolveWabaId"
  /\ ret.kind = "throw"
  /\ ret.error.class = "WABAConfigError"
  /\ host.backups = {0}

\* a value written by updateConfigField is what a later call resolves to
WrittenValueResolved ==
  /\ op = "resolvePhoneNumberId"
  /\ ~Given(arg)
  /\ ~Given(host.env.phoneNumberId)
  /\ ret = Return(Str("p1"))

\* two files that did not decrypt were backed up a second apart
TwoBackups == host.backups = {0, 1}

\* a file that does not decrypt is there again within the second of a backup
SecondBackupDue ==
  /\ host.file.t = "undecryptable"
  /\ host.now \in host.backups

ReadErrorThrownOn ==
  /\ op = "resolvePhoneNumberId"
  /\ ret = Throw(ErrorInstance("Error", "EACCES: permission denied"))

(***************************************************************************)
(* WABAApiClient: the outbound requests.  Seven places issue a fetch and   *)
(* map its outcome: listPhoneNumbers, publishFlow and listFlows themselves, *)
(* and makeGetRequest, makeDeleteRequest, makeFormDataRequest and          *)
(* makeRequest for the other ten public methods.                           *)
(***************************************************************************)
\* new WABAApiClient(options): ?? puts the default in the place of an
\* undefined or null option
WABAApiClient(options) ==
  [accessToken |-> options.accessToken,
   phoneNumberId |-> options.phoneNumberId,
   apiVersion |-> IF IsNullish(options.apiVersion)
                    THEN DEFAULT_API_VERSION ELSE options.apiVersion.sv,
   baseUrl |-> IF IsNullish(options.baseUrl)
                 THEN DEFAULT_BASE_URL ELSE options.baseUrl.sv]

WABAAuthError(message, statusCode) ==
  [t |-> "error", class |-> "WABAAuthError", message |-> message,
   code |-> statusCode, statusCode |-> statusCode]

WABASendError(message, statusCode, errorPayload) ==
  [t |-> "error", class |-> "WABASendError", message |-> message,
   code |-> statusCode, details |-> errorPayload,
   statusCode |-> statusCode, errorPayload |-> errorPayload]

\* a public method of the client, called with input, up to its await of
\* fetch: the statements of the method before its request path, then the
\* path up to the fetch, with the second argument of fetch at each of the
\* seven places.  Three methods can throw before their path is entered, and
\* nothing catches it: createFlow in JSON.stringify(categories),
\* updateFlowJson in readFileSync(filePath), deleteTemplate in
\* encodeURIComponent(templateName).  makeRequest evaluates
\* JSON.stringify(body) inside the try that holds the fetch: a body that
\* cannot be serialised (a circular structure, or a toJSON that throws
\* input.thrown) ends the call in the catch.  In each of these cases no
\* fetch is called.
startRequest(this, method, input) ==
  LET path ==
        CASE method \in {"listPhoneNumbers", "publishFlow", "listFlows"} -> method
          [] method \in {"createFlow", "updateFlowJson"} -> "makeFormDataRequest"
          [] method = "listTemplates" -> "makeGetRequest"
          [] method = "deleteTemplate" -> "makeDeleteRequest"
          [] OTHER -> "makeRequest"
      ended(outcome) ==
        [method |-> method, path |-> path, pc |-> "done", requests |-> <<>>,
         responses |-> <<>>, outcome |-> outcome]
  IN
  CASE method = "createFlow" /\ input.t = "unserialisable" -> ended(Throw(input.thrown))
    [] method = "updateFlowJson" /\ input.t = "no-file" ->
         ended(Throw([t |-> "error", class |-> "Error", message |-> input.message,
                      code |-> Str(input.code)]))
    [] method = "deleteTemplate" /\ input.t = "lone-surrogate" ->
         ended(Throw(ErrorInstance("URIError", "URI malformed")))
    [] path = "makeRequest" /\ input.t = "unserialisable" ->
         ended(Throw(WABANetworkError(
                 <<"Failed to make request", MessageOf(input.thrown)>>,
                 CauseOf(input.thrown))))
    [] OTHER ->
         [method |-> method, path |-> path, pc |-> "fetching",
          requests |->
            << [method |-> CASE path \in {"listPhoneNumbers", "listFlows", "makeGetRequest"} ->
                                  "GET"
                             [] path = "makeDeleteRequest" -> "DELETE"
                             [] OTHER -> "POST",
                authorization |-> <<"Bearer", this.accessToken>>,
                contentType |-> IF path = "makeRequest" THEN Str("application/json")
                                ELSE Undef,
                body |-> CASE path = "makeRequest" -> [t |-> "json-text", of |-> input]
                           [] path = "makeFormDataRequest" -> [t |-> "form-data"]
                           [] OTHER -> Undef] >>,
          responses |-> <<>>, outcome |-> Pending]

\* a request path from the settlement of its fetch up to its await of
\* response.json()
onFetchSettled(c, r) ==
  IF r.t = "rejected"
    THEN Settle(c, r, Throw(WABANetworkError(
           <<"Failed to make request", MessageOf(r.reason)>>, CauseOf(r.reason))))
  ELSE [c EXCEPT !.pc = "parsing", !.responses = Append(@, r)]

\* the rest of a request path, from the settlement of response.json(): the
\* same statements at each of the seven places.  response.json() rejects
\* when the body does not parse (SyntaxError) and when the body cannot be
\* read to its end (TypeError); for a success status nothing catches the
\* rejection, for a failure status .catch(() => null) puts null in its place.
onJsonSettled(c, body) ==
  LET r == c.responses[Len(c.responses)]
      read == [r EXCEPT !.json = body]
  IN
  IF IsOk(r.status)
    THEN [c EXCEPT !.pc = "done",
                   !.responses = [@ EXCEPT ![Len(@)] = read],
                   !.outcome =
                     CASE body = InvalidJson ->
                            Throw(ErrorInstance("SyntaxError", "Unexpected end of JSON input"))
                       [] body = Unreadable ->
                            Throw(ErrorInstance("TypeError", "terminated"))
                       [] OTHER -> Return(body)]
  ELSE
    LET errorBody == IF body = InvalidJson \/ body = Unreadable THEN Null ELSE body IN
    [c EXCEPT !.pc = "done",
              !.responses = [@ EXCEPT ![Len(@)] = read],
              !.outcome = IF r.status = 401 \/ r.status = 403
                            THEN Throw(WABAAuthError(
                                   <<"Authentication failed", r.status, r.statusText>>,
                                   Num(r.status)))
                            ELSE Throw(WABASendError(
                                   <<"Request failed", r.status, r.statusText>>,
                                   Num(r.status), errorBody))]

MaxRequests == 2

\* what the Graph API answers: a JSON body, or one that does not parse
GraphError(code) == Obj([error |-> Obj([message |-> Str("failed"), code |-> Num(code)])])
GraphSuccess == Obj([success |-> Bool(TRUE)])

\* the ways the fetch of a request can settle: a rejection with an Error or
\* with whatever else was thrown, or a response whose body is still to be
\* read
ApiSettlements ==
  { Rejected(e) : e \in {ErrorInstance("TypeError", "fetch failed"), Str("reset")} }
  \cup { [t |-> "response", status |-> 200, statusText |-> "OK", json |-> Unread] }
  \cup { [t |-> "response", status |-> st, statusText |-> "", json |-> Unread] :
           st \in {401, 403, 500} }

\* the ways response.json() of a response of that status can settle: with
\* the parsed body (an object, or the JSON value null), or with a rejection
\* for a body that does not parse or that breaks off while it is read
JsonSettlements(status) ==
  {IF IsOk(status) THEN GraphSuccess ELSE GraphError(status), Null, InvalidJson, Unreadable}

InitApi ==
  /\ op = "WABAApiClient"
  /\ arg = Undef
  /\ ret = Pending
  /\ client \in { WABAApiClient([accessToken |-> "token", phoneNumberId |-> "phone1",
                                  apiVersion |-> o[1], baseUrl |-> o[2]]) :
                     o \in { <<Undef, Undef>>, <<Null, Null>>,
                             <<Str("v21.0"), Str("https://graph.example")>> } }
  /\ calls = <<>>
  /\ issued = 0
  /\ host = NoHost

\* a public method of the client is called and runs up to the fetch of its
\* path.  What it is called with: for the methods that hand an object of
\* the caller to makeRequest a payload, a circular structure, or an object
\* whose toJSON throws a string; for createFlow options with categories
\* that serialise or are circular; for updateFlowJson a file that is there,
\* is missing or is a directory; for deleteTemplate a name that is well
\* formed or holds a lone surrogate.
RequestStarted(method) ==
  /\ Len(calls) < MaxRequests
  /\ \E input \in
         CASE method \in {"sendTextMessage", "sendTemplateMessage", "sendMessage",
                          "createTemplate"} ->
                { Obj([messaging_product |-> Str("whatsapp")]),
                  [t |-> "unserialisable",
                   thrown |-> ErrorInstance("TypeError",
                                            "Converting circular structure to JSON")],
                  [t |-> "unserialisable", thrown |-> Str("no")] }
           [] method \in {"registerPhone", "deregisterPhone"} ->
                { Obj([messaging_product |-> Str("whatsapp")]) }
           [] method = "createFlow" ->
                { Obj([name |-> Str("flow")]),
                  [t |-> "unserialisable",
                   thrown |-> ErrorInstance("TypeError",
                                            "Converting circular structure to JSON")] }
           [] method = "updateFlowJson" ->
                { Str("flow.json"),
                  [t |-> "no-file", code |-> "ENOENT",
                   message |-> "ENOENT: no such file or directory"],
                  [t |-> "no-file", code |-> "EISDIR",
                   message |-> "EISDIR: illegal operation on a directory"] }
           [] method = "deleteTemplate" -> { Str("template_1"), [t |-> "lone-surrogate"] }
           [] OTHER -> {Undef} :
       calls' = Append(calls, startRequest(client, method, input))
  /\ UNCHANGED <<op, arg, ret, client, issued, host>>

\* the fetch of request i settles
FetchSettled(i) ==
  /\ calls[i].pc = "fetching"
  /\ \E r \in ApiSettlements : calls' = [calls EXCEPT ![i] = onFetchSettled(calls[i], r)]
  /\ UNCHANGED <<op, arg, ret, client, issued, host>>

\* response.json() of request i settles
JsonSettled(i) ==
  /\ calls[i].pc = "parsing"
  /\ \E body \in JsonSettlements(calls[i].responses[1].status) :
       calls' = [calls EXCEPT ![i] = onJsonSettled(calls[i], body)]
  /\ UNCHANGED <<op, arg, ret, client, issued, host>>

NextApi ==
  \/ \E method \in {"registerPhone", "deregisterPhone", "listPhoneNumbers",
                     "sendTextMessage", "sendTemplateMessage", "sendMessage", "createFlow",
                     "updateFlowJson", "publishFlow", "listFlows", "listTemplates",
                     "createTemplate", "deleteTemplate"} :
       RequestStarted(method)
  \/ \E i \in 1..Len(calls) : FetchSettled(i)
  \/ \E i \in 1..Len(calls) : JsonSettled(i)

SpecApi == InitApi /\ [][NextApi]_vars

(***************************************************************************)
(* Properties of the outbound requests (SpecApi).                          *)
(***************************************************************************)
\* the error body as the caller is to see it: parsed, or null
ParsedOrNull(r) == IF r.json \in {InvalidJson, Unreadable} THEN Null ELSE r.json

\* C30: every outbound request of WABAApiClient is issued exactly once and
\* maps its outcome the same way on each of the seven paths: a rejected
\* fetch raises WABANetworkError with the cause, 401 and 403 raise
\* WABAAuthError with the status, any other non-success status raises
\* WABASendError with the status and the parsed error body (null when it does
\* not parse), and a success status returns the parsed body.
C30_OutcomeMappedOnce ==
  \A i \in Invocations : LET c == calls[i] IN
     /\ Len(c.requests) = 1
     /\ c.pc = "done" =>
          /\ Len(c.responses) = 1
          /\ LET r == c.responses[1] IN
             /\ r.t = "rejected" =>
                  /\ c.outcome.kind = "throw"
                  /\ c.outcome.error.class = "WABANetworkError"
                  /\ c.outcome.error.cause = (IF r.reason.t = "error" THEN r.reason ELSE Undef)
             /\ (r.t = "response" /\ r.status \in {401, 403}) =>
                  /\ c.outcome.kind = "throw"
                  /\ c.outcome.error.class = "WABAAuthError"
                  /\ c.outcome.error.statusCode = Num(r.status)
             /\ (r.t = "response" /\ ~(r.status \in 200..299) /\ r.status \notin {401, 403}) =>
                  /\ c.outcome.kind = "throw"
                  /\ c.outcome.error.class = "WABASendError"
                  /\ c.outcome.error.statusCode = Num(r.status)
                  /\ c.outcome.error.errorPayload = ParsedOrNull(r)
             /\ (r.t = "response" /\ r.status \in 200..299) =>
                  /\ c.outcome.kind = "return"
                  /\ r.json \notin {InvalidJson, Unreadable}
                  /\ c.outcome.value = r.json

\* what holds of the code: a call never issues more than one request; a call
\* that issued none ended with WABANetworkError on the makeRequest path and
\* with the error of the failing statement in createFlow, updateFlowJson and
\* deleteTemplate; a call whose fetch settled maps a rejection and a failure
\* status as C30 says, and returns the body of a success status when
\* response.json() gives one
OutcomeMappedWhenIssuedAndParsed ==
  \A i \in Invocations : LET c == calls[i] IN
     /\ Len(c.requests) <= 1
     /\ Len(c.requests) = 0 =>
          /\ c.pc = "done"
          /\ c.responses = <<>>
          /\ c.outcome.kind = "throw"
          /\ IF c.path = "makeRequest"
               THEN c.outcome.error.class = "WABANetworkError"
               ELSE /\ c.method \in {"createFlow", "updateFlowJson", "deleteTemplate"}
                    /\ c.outcome.error.class \in {"TypeError", "Error", "URIError"}
     /\ c.pc = "parsing" =>
          /\ Len(c.responses) = 1
          /\ c.responses[1].t = "response"
          /\ c.outcome = Pending
     /\ (c.pc = "done" /\ Len(c.requests) = 1) =>
          /\ Len(c.responses) = 1
          /\ LET r == c.responses[1] IN
             /\ r.t = "rejected" =>
                  /\ c.outcome.kind = "throw"
                  /\ c.outcome.error.class = "WABANetworkError"
                  /\ c.outcome.error.cause = (IF r.reason.t = "error" THEN r.reason ELSE Undef)
             /\ (r.t = "response" /\ r.status \in {401, 403}) =>
                  /\ c.outcome.kind = "throw"
                  /\ c.outcome.error.class = "WABAAuthError"
                  /\ c.outcome.error.statusCode = Num(r.status)
             /\ (r.t = "response" /\ ~(r.status \in 200..299) /\ r.status \notin {401, 403}) =>
                  /\ c.outcome.kind = "throw"
                  /\ c.outcome.error.class = "WABASendError"
                  /\ c.outcome.error.statusCode = Num(r.status)
                  /\ c.outcome.error.errorPayload = ParsedOrNull(r)
             /\ (r.t = "response" /\ r.status \in 200..299
                   /\ r.json \notin {InvalidJson, Unreadable}) =>
                  c.outcome = Return(r.json)

\* two requests on different paths, one answered 403 with a body that does
\* not parse, one answered 500 with an error body
AuthAndSendErrorsReached ==
  /\ Len(calls) = 2
  /\ calls[1].path = "makeDeleteRequest"
  /\ calls[1].pc = "done" /\ calls[2].pc = "done"
  /\ Len(calls[1].responses) = 1 /\ Len(calls[2].responses) = 1
  /\ calls[1].responses[1].t = "response" /\ calls[2].responses[1].t = "response"
  /\ calls[1].responses[1].status = 403
  /\ calls[1].responses[1].json = InvalidJson
  /\ calls[1].outcome.error.class = "WABAAuthError"
  /\ calls[1].outcome.error.statusCode = Num(403)
  /\ calls[2].path = "makeRequest"
  /\ calls[2].outcome.kind = "throw"
  /\ calls[2].outcome.error.class = "WABASendError"
  /\ calls[2].outcome.error.errorPayload = GraphError(500)

SuccessReturnsBody ==
  /\ Len(calls) >= 1
  /\ calls[1].path = "listPhoneNumbers"
  /\ calls[1].outcome = Return(GraphSuccess)

\* a success body that does not parse: the parser's error reaches the caller
UnparsedSuccessReached ==
  /\ Len(calls) >= 1
  /\ calls[1].outcome.kind = "throw"
  /\ calls[1].outcome.error.class = "SyntaxError"

\* a success body that breaks off while it is read: the reader's error
\* reaches the caller
UnreadSuccessReached ==
  /\ Len(calls) >= 1
  /\ calls[1].outcome = Throw(ErrorInstance("TypeError", "terminated"))

\* a body that cannot be serialised: WABANetworkError, and no request issued
NoRequestIssuedReached ==
  /\ Len(calls) >= 1
  /\ calls[1].method = "sendMessage"
  /\ calls[1].requests = <<>>
  /\ calls[1].outcome.kind = "throw"
  /\ calls[1].outcome.error.class = "WABANetworkError"
  /\ calls[1].outcome.error.cause = Undef

\* a failure status whose body breaks off while it is read: null in the
\* place of the error body
UnreadFailureBodyReached ==
  /\ Len(calls) >= 1
  /\ calls[1].pc = "done"
  /\ Len(calls[1].responses) = 1
  /\ calls[1].responses[1].t = "response"
  /\ calls[1].responses[1].status = 500
  /\ calls[1].responses[1].json = Unreadable
  /\ calls[1].outcome.kind = "throw"
  /\ calls[1].outcome.error.class = "WABASendError"
  /\ calls[1].outcome.error.errorPayload = Null

\* updateFlowJson of a file that is not there: the error of readFileSync
\* reaches the caller, and no request is issued
MissingFileReached ==
  /\ Len(calls) >= 1
  /\ calls[1].method = "updateFlowJson"
  /\ calls[1].pc = "done"
  /\ calls[1].requests = <<>>
  /\ calls[1].outcome.kind = "throw"
  /\ calls[1].outcome.error.class = "Error"
  /\ calls[1].outcome.error.code = Str("ENOENT")

\* createFlow and deleteTemplate end before their fetch with the error of
\* JSON.stringify and of encodeURIComponent
RawErrorsBeforeFetchReached ==
  /\ Len(calls) = 2
  /\ calls[1].method = "createFlow"
  /\ calls[1].requests = <<>>
  /\ calls[1].outcome = Throw(ErrorInstance("TypeError", "Converting circular structure to JSON"))
  /\ calls[2].method = "deleteTemplate"
  /\ calls[2].requests = <<>>
  /\ calls[2].outcome = Throw(ErrorInstance("URIError", "URI malformed"))
====
